---- MODULE Spec2Model ----
(***************************************************************************)
(* Model of the batch orchestration layer of                               *)
(* devstack/automation/python (batch_operations.py on top of               *)
(* openstack_automation.py).  One call of one batch operation is modelled  *)
(* per behaviour: the calling thread's position is pc, the worker pool is  *)
(* the sequence of futures, and the cloud backend is the record backend.   *)
(***************************************************************************)
EXTENDS Integers, Sequences, FiniteSets, TLC

VARIABLES
    backend,      \* the cloud backend: servers, images, flavors
    backend0,     \* the backend as it was when the call started
    args,         \* the arguments of the call, and self.max_workers
    pc,           \* position of the calling thread
    i,            \* index of the calling thread's loop
    locals,       \* other local variables of the calling thread
    futures,      \* the futures submitted to the ThreadPoolExecutor
    yielded,      \* futures already yielded by as_completed
    result,       \* the value under construction / returned
    prev_result,  \* the value returned by the previous run of the same call
    runs,         \* number of runs of the call started so far
    calls         \* log of the backend calls issued, in order

vars == <<backend, backend0, args, pc, i, locals, futures, yielded, result,
          prev_result, runs, calls>>

-----------------------------------------------------------------------------
(* Bounds *)

MaxNames == 2
MaxWorkers == 2
MaxRuns == 2
MaxServers == 5
MaxBatch == 3
MaxEnvServers == 3
MaxEnvChanges == 1
MaxPolls == 2

-----------------------------------------------------------------------------
(* Generic helpers *)

Range(s) == {s[k] : k \in DOMAIN s}

SeqsUpTo(S, n) == UNION {[1..k -> S] : k \in 0..n}

\* one entry of the log of backend calls: the call, the unit of work (the
\* position in the input list, or the future) it was issued for, whether it
\* returned (TRUE) or threw (FALSE), and what it returned
Event(call, unit, ok, info) ==
    [call |-> call, unit |-> unit, ok |-> ok, info |-> info]

\* number of positions of s that hold x
Count(s, x) == Cardinality({k \in DOMAIN s : s[k] = x})

-----------------------------------------------------------------------------
(* The backend *)

\* Server names are sequences of characters, so that str.startswith is a
\* prefix test.
Names == {<<"a">>, <<"b">>}

NoServer == [id |-> 0, name |-> <<>>, status |-> "NONE", addresses |-> {},
             flavor |-> "none", image |-> 0, networks |-> <<>>,
             security_groups |-> <<>>]

\* ids of the images, and of the network, that exist before the call
CirrosId == 100
UbuntuId == 101
AppNetId == 200
\* first id the backend gives to a resource created during the call
FirstNewId == 300

MkServer(id, name, status, addresses) ==
    [id |-> id, name |-> name, status |-> status, addresses |-> addresses,
     flavor |-> "m1.small", image |-> CirrosId, networks |-> <<AppNetId>>,
     security_groups |-> <<>>]

\* a backend holding the given servers and flavors, two images, one network
\* and one security group
MkBackend(servers, flavors) ==
    [servers |-> servers,
     images |-> {[id |-> CirrosId, name |-> "cirros"],
                 [id |-> UbuntuId, name |-> "ubuntu"]},
     flavors |-> flavors,
     networks |-> {[id |-> AppNetId, name |-> "app-net"]},
     security_groups |-> {"web-sg"},
     next_id |-> FirstNewId]

\* What the backend holds under one name when the call starts.
Kinds == {"absent", "healthy", "noaddr", "stopped", "down", "dup"}

\* ids 2k-1 and 2k are reserved for the k-th name
ServersOfKind(k, name, kind) ==
    CASE kind = "absent"  -> {}
      [] kind = "healthy" -> {MkServer(2 * k - 1, name, "ACTIVE", {"10.0.0.1"})}
      [] kind = "noaddr"  -> {MkServer(2 * k - 1, name, "ACTIVE", {})}
      [] kind = "stopped" -> {MkServer(2 * k - 1, name, "SHUTOFF", {"10.0.0.1"})}
      [] kind = "down"    -> {MkServer(2 * k - 1, name, "SHUTOFF", {})}
      [] kind = "dup"     -> {MkServer(2 * k - 1, name, "ACTIVE", {"10.0.0.1"}),
                              MkServer(2 * k, name, "ACTIVE", {"10.0.0.1"})}

NameIndex(name) == IF name = <<"a">> THEN 1 ELSE 2

\* conn.compute.find_server(name): None when no server has the name, the
\* server when exactly one has it, and an exception (DuplicateResource)
\* when several have it.
find_server(b, name) ==
    LET m == {s \in b.servers : s.name = name}
    IN  IF m = {} THEN [raised |-> FALSE, found |-> FALSE, server |-> NoServer]
        ELSE IF Cardinality(m) > 1
             THEN [raised |-> TRUE, found |-> FALSE, server |-> NoServer]
             ELSE [raised |-> FALSE, found |-> TRUE,
                   server |-> CHOOSE s \in m : TRUE]

NoLocals == [server |-> NoServer]

-----------------------------------------------------------------------------
(* The worker pool (concurrent.futures.ThreadPoolExecutor) *)

Future(fn, arg) ==
    [fn |-> fn, arg |-> arg, state |-> "queued", raised |-> FALSE,
     value |-> "none"]

Running == {f \in DOMAIN futures : futures[f].state = "running"}

Queued == {f \in DOMAIN futures : futures[f].state = "queued"}

Done == {f \in DOMAIN futures : futures[f].state = "done"}

\* WorkerStart of a pool that starts a thread for every work item
WorkerStart_Unbounded ==
    /\ Queued # {}
    /\ LET f == CHOOSE g \in Queued : \A h \in Queued : g <= h
       IN  futures' = [futures EXCEPT ![f].state = "running"]
    /\ UNCHANGED <<locals, backend, backend0, args, pc, i, yielded, result,
                   prev_result, runs, calls>>

\* A worker thread takes the oldest queued work item; the pool never has
\* more than max_workers threads.
WorkerStart ==
    /\ Queued # {}
    /\ Cardinality(Running) < args.max_workers
    /\ LET f == CHOOSE g \in Queued : \A h \in Queued : g <= h
       IN  futures' = [futures EXCEPT ![f].state = "running"]
    /\ UNCHANGED <<locals, backend, backend0, args, pc, i, yielded, result,
                   prev_result, runs, calls>>

-----------------------------------------------------------------------------
(* health_check_instances *)

\* _check_instance_health without the test of the addresses
_check_instance_health_NoAddressTest(b, server_name) ==
    LET r == find_server(b, server_name)
    IN  IF r.raised THEN [raised |-> TRUE, value |-> "none"]
        ELSE IF ~r.found THEN [raised |-> FALSE, value |-> "unknown"]
        ELSE IF r.server.status # "ACTIVE"
             THEN [raised |-> FALSE, value |-> "unhealthy"]
        ELSE [raised |-> FALSE, value |-> "healthy"]

\* _check_instance_health(server_name): the returned status, or an exception
_check_instance_health(b, server_name) ==
    LET r == find_server(b, server_name)
    IN  IF r.raised THEN [raised |-> TRUE, value |-> "none"]
        ELSE IF ~r.found THEN [raised |-> FALSE, value |-> "unknown"]
        ELSE IF r.server.status # "ACTIVE"
             THEN [raised |-> FALSE, value |-> "unhealthy"]
        ELSE IF r.server.addresses = {}
             THEN [raised |-> FALSE, value |-> "unhealthy"]
        ELSE [raised |-> FALSE, value |-> "healthy"]

EmptyHealth == [healthy |-> <<>>, unhealthy |-> <<>>, unknown |-> <<>>]

\* for server_name in server_names: executor.submit(...)
HealthSubmit ==
    /\ args.op = "health"
    /\ pc = "submit"
    /\ IF i <= Len(args.server_names)
       THEN /\ futures' = Append(futures,
                   Future("_check_instance_health", args.server_names[i]))
            /\ i' = i + 1
            /\ pc' = pc
       ELSE /\ pc' = "collect"
            /\ UNCHANGED <<futures, i>>
    /\ UNCHANGED <<locals, backend, backend0, args, yielded, result, prev_result,
                   runs, calls>>

\* HealthWorkerFinish rebooting the server it finds not ACTIVE
HealthWorkerFinish_Reboots ==
    \E f \in Running :
        /\ futures[f].fn = "_check_instance_health"
        /\ LET r == _check_instance_health(backend, futures[f].arg)
               srv == find_server(backend, futures[f].arg)
           IN  /\ futures' = [futures EXCEPT ![f].state = "done",
                                              ![f].raised = r.raised,
                                              ![f].value = r.value]
               /\ backend' = IF srv.found /\ srv.server.status # "ACTIVE"
                              THEN [backend EXCEPT !.servers =
                                       (@ \ {srv.server}) \cup
                                       {[srv.server EXCEPT !.status = "REBOOT"]}]
                              ELSE backend
        /\ calls' = Append(calls,
               Event("find_server", f,
                     ~find_server(backend, futures[f].arg).raised, "read"))
        /\ UNCHANGED <<locals, backend0, args, pc, i, yielded, result,
                       prev_result, runs>>

\* HealthWorkerFinish appending to the bucket from the worker thread
HealthWorkerFinish_Appends ==
    \E f \in Running :
        /\ futures[f].fn = "_check_instance_health"
        /\ LET r == _check_instance_health(backend, futures[f].arg)
           IN  /\ futures' = [futures EXCEPT ![f].state = "done",
                                              ![f].raised = r.raised,
                                              ![f].value = r.value]
               /\ result' = [result EXCEPT
                                ![IF r.raised THEN "unknown" ELSE r.value] =
                                    Append(@, futures[f].arg)]
        /\ calls' = Append(calls,
               Event("find_server", f,
                     ~find_server(backend, futures[f].arg).raised, "read"))
        /\ UNCHANGED <<locals, backend, backend0, args, pc, i, yielded,
                       prev_result, runs>>

\* a worker thread runs _check_instance_health to its end
HealthWorkerFinish ==
    \E f \in Running :
        /\ futures[f].fn = "_check_instance_health"
        /\ LET r == _check_instance_health(backend, futures[f].arg)
           IN  futures' = [futures EXCEPT ![f].state = "done",
                                          ![f].raised = r.raised,
                                          ![f].value = r.value]
        /\ calls' = Append(calls,
               Event("find_server", f,
                     ~find_server(backend, futures[f].arg).raised, "read"))
        /\ UNCHANGED <<locals, backend, backend0, args, pc, i, yielded, result,
                       prev_result, runs>>

\* the bucket one completed future is appended to
HealthBucket(fut) == IF fut.raised THEN "unknown" ELSE fut.value

\* HealthCollect without the append of the except branch
HealthCollect_DropsRaised ==
    /\ args.op = "health"
    /\ pc = "collect"
    /\ IF yielded = DOMAIN futures
       THEN /\ pc' = "done"
            /\ UNCHANGED <<yielded, result>>
       ELSE \E f \in Done \ yielded :
            /\ yielded' = yielded \cup {f}
            /\ result' = IF futures[f].raised THEN result
                          ELSE [result EXCEPT ![futures[f].value] =
                                    Append(@, futures[f].arg)]
            /\ pc' = pc
    /\ UNCHANGED <<locals, backend, backend0, args, i, futures, prev_result, runs,
                   calls>>

\* HealthCollect pairing the names in input order with the futures in
\* completion order, as zip(server_names, as_completed(futures)) would
HealthCollect_ZipsNames ==
    /\ args.op = "health"
    /\ pc = "collect"
    /\ IF yielded = DOMAIN futures
       THEN /\ pc' = "done"
            /\ UNCHANGED <<yielded, result>>
       ELSE \E f \in Done \ yielded :
            /\ yielded' = yielded \cup {f}
            /\ result' = [result EXCEPT ![HealthBucket(futures[f])] =
                              Append(@, args.server_names[Cardinality(yielded) + 1])]
            /\ pc' = pc
    /\ UNCHANGED <<locals, backend, backend0, args, i, futures, prev_result, runs,
                   calls>>

\* HealthCollect returning as soon as nothing completed is left to collect,
\* as a pool shut down without waiting would
HealthCollect_ReturnsEarly ==
    /\ args.op = "health"
    /\ pc = "collect"
    /\ IF yielded = Done
       THEN /\ pc' = "done"
            /\ UNCHANGED <<yielded, result>>
       ELSE \E f \in Done \ yielded :
            /\ yielded' = yielded \cup {f}
            /\ result' = [result EXCEPT ![HealthBucket(futures[f])] =
                              Append(@, futures[f].arg)]
            /\ pc' = pc
    /\ UNCHANGED <<locals, backend, backend0, args, i, futures, prev_result, runs,
                   calls>>

\* for future in as_completed(futures): one iteration, or the return
HealthCollect ==
    /\ args.op = "health"
    /\ pc = "collect"
    /\ IF yielded = DOMAIN futures
       THEN /\ pc' = "done"
            /\ UNCHANGED <<yielded, result>>
       ELSE \E f \in Done \ yielded :
            /\ yielded' = yielded \cup {f}
            /\ result' = [result EXCEPT ![HealthBucket(futures[f])] =
                              Append(@, futures[f].arg)]
            /\ pc' = pc
    /\ UNCHANGED <<locals, backend, backend0, args, i, futures, prev_result, runs,
                   calls>>

\* the caller calls health_check_instances again with the same names
HealthRerun ==
    /\ args.op = "health"
    /\ pc = "done"
    /\ runs < MaxRuns
    /\ runs' = runs + 1
    /\ prev_result' = result
    /\ result' = EmptyHealth
    /\ futures' = <<>>
    /\ yielded' = {}
    /\ i' = 1
    /\ pc' = "submit"
    /\ calls' = <<>>
    /\ UNCHANGED <<locals, backend, backend0, args>>

InitHealth ==
    /\ \E kind \in [Names -> Kinds] :
          backend = MkBackend(UNION {ServersOfKind(NameIndex(n), n, kind[n]) : n \in Names},
                              {"m1.small"})
    /\ backend0 = backend
    /\ \E names \in SeqsUpTo(Names, MaxNames), w \in 1..MaxWorkers :
          args = [op |-> "health", server_names |-> names, max_workers |-> w]
    /\ pc = "submit"
    /\ i = 1
    /\ locals = NoLocals
    /\ futures = <<>>
    /\ yielded = {}
    /\ result = EmptyHealth
    /\ prev_result = EmptyHealth
    /\ runs = 1
    /\ calls = <<>>

NextHealth ==
    \/ HealthSubmit
    \/ WorkerStart
    \/ HealthWorkerFinish
    \/ HealthCollect
    \/ HealthRerun

SpecHealth == InitHealth /\ [][NextHealth]_vars

-----------------------------------------------------------------------------
(* Properties of health_check_instances *)

HealthBuckets == {"healthy", "unhealthy", "unknown"}

\* the buckets that hold the name n
BucketsOf(r, n) == {b \in HealthBuckets : n \in Range(r[b])}

\* occurrences of the name n over the three buckets
Occurrences(r, n) ==
    Count(r.healthy, n) + Count(r.unhealthy, n) + Count(r.unknown, n)

\* C1: when health_check_instances returns, every input name is in exactly
\* one of the buckets healthy / unhealthy / unknown, and the three buckets
\* together hold each name exactly as often as the input does, whether the
\* name resolves, does not resolve or the check throws.
C1_HealthPartition ==
    (args.op = "health" /\ pc = "done") =>
        /\ \A n \in Range(args.server_names) : Cardinality(BucketsOf(result, n)) = 1
        /\ \A n \in Names : Occurrences(result, n) = Count(args.server_names, n)

\* a returned check of two names, one whose check threw and one that resolved
C1_Witness ==
    /\ args.op = "health" /\ pc = "done"
    /\ Len(args.server_names) = 2
    /\ \E f \in DOMAIN futures : futures[f].raised
    /\ result.unknown # <<>>
    /\ result.healthy # <<>>

\* C8: a second run of health_check_instances on the same names against the
\* unchanged backend puts every name in the same bucket, as often, as the
\* first run did, whatever the order in which the workers completed.
C8_HealthIdempotent ==
    (args.op = "health" /\ pc = "done" /\ runs >= 2 /\ backend = backend0) =>
        \A b \in HealthBuckets : \A n \in Names :
            Count(result[b], n) = Count(prev_result[b], n)

\* a second run that collected two names in another order than the first
C8_Witness ==
    /\ args.op = "health" /\ pc = "done" /\ runs >= 2
    /\ backend = backend0
    /\ \E b \in HealthBuckets :
          /\ Len(result[b]) = 2
          /\ Len(prev_result[b]) = 2
          /\ result[b] # prev_result[b]

-----------------------------------------------------------------------------
(* batch_resize_instances *)

\* the backend with the server of the given id replaced by srv
WithServer(b, srv) ==
    [b EXCEPT !.servers = {s \in b.servers : s.id # srv.id} \cup {srv}]

ServerIds(b) == {srv.id : srv \in b.servers}

\* the backend with the status of the server of the given id changed, if
\* the backend still holds that server
SetStatus(b, id, status) ==
    [b EXCEPT !.servers = {IF srv.id = id THEN [srv EXCEPT !.status = status]
                           ELSE srv : srv \in @}]

\* conn.compute.find_flavor(name): the flavor, or None
find_flavor(b, name) == name \in b.flavors

EmptyResize == [success |-> <<>>, failed |-> <<>>]

\* ResizeFailed with an except branch that only logs
ResizeFailed_OnlyLogs(events) ==
    /\ result' = result
    /\ calls' = calls \o events
    /\ i' = i + 1
    /\ pc' = "find_server"
    /\ locals' = NoLocals

\* results['failed'].append(server_name), and on to the next server_name
ResizeFailed(events) ==
    /\ result' = [result EXCEPT !.failed = Append(@, args.server_names[i])]
    /\ calls' = calls \o events \o <<Event("results.append", i, TRUE, "failed")>>
    /\ i' = i + 1
    /\ pc' = "find_server"
    /\ locals' = NoLocals

\* ResizeFindFlavor without the check of the flavor
ResizeFindFlavor_NoCheck ==
    /\ args.op = "resize"
    /\ pc = "find_flavor"
    /\ calls' = Append(calls, Event("find_flavor", 0, TRUE, "read"))
    /\ pc' = "find_server"
    /\ UNCHANGED <<backend, backend0, args, i, locals, futures, yielded,
                   result, prev_result, runs>>

\* flavor = find_flavor(new_flavor); if not flavor: raise ValueError
ResizeFindFlavor ==
    /\ args.op = "resize"
    /\ pc = "find_flavor"
    /\ calls' = Append(calls, Event("find_flavor", 0, TRUE, "read"))
    /\ pc' = IF find_flavor(backend, args.new_flavor) THEN "find_server"
             ELSE "raised"
    /\ UNCHANGED <<backend, backend0, args, i, locals, futures, yielded,
                   result, prev_result, runs>>

\* for server_name in server_names: server = find_server(server_name)
ResizeFindServer ==
    /\ args.op = "resize"
    /\ pc = "find_server"
    /\ IF i > Len(args.server_names)
       THEN /\ pc' = "done"
            /\ UNCHANGED <<i, locals, result, calls>>
       ELSE LET r == find_server(backend, args.server_names[i])
            IN  IF r.raised
                THEN ResizeFailed(<<Event("find_server", i, FALSE, "read")>>)
                ELSE IF ~r.found
                THEN ResizeFailed(<<Event("find_server", i, TRUE, "None")>>)
                ELSE /\ locals' = [server |-> r.server]
                     /\ calls' = Append(calls, Event("find_server", i, TRUE, "found"))
                     /\ pc' = "resize_server"
                     /\ UNCHANGED <<i, result>>
    /\ UNCHANGED <<backend, backend0, args, futures, yielded, prev_result,
                   runs>>

\* conn.compute.resize_server(server, flavor)
ResizeRequest ==
    /\ args.op = "resize"
    /\ pc = "resize_server"
    /\ \E ok \in BOOLEAN :
          IF ok
          THEN /\ backend' = WithServer(backend,
                                [locals.server EXCEPT !.status = "RESIZE"])
               /\ calls' = Append(calls, Event("resize_server", i, TRUE, args.new_flavor))
               /\ pc' = "wait_for_server"
               /\ UNCHANGED <<i, locals, result>>
          ELSE /\ ResizeFailed(<<Event("resize_server", i, FALSE, args.new_flavor)>>)
               /\ UNCHANGED backend
    /\ UNCHANGED <<backend0, args, futures, yielded, prev_result, runs>>

\* the ways wait_for_server(server, status='VERIFY_RESIZE', wait=300) ends:
\* the status is reached, the wait runs out (ResourceTimeout), or the server
\* goes to ERROR (ResourceFailure)
WaitOutcomes == {"VERIFY_RESIZE", "timeout", "ERROR"}

\* ResizeWait going on to the confirmation whatever the wait reported
ResizeWait_IgnoresOutcome ==
    /\ args.op = "resize"
    /\ pc = "wait_for_server"
    /\ \E outcome \in WaitOutcomes :
          /\ calls' = Append(calls, Event("wait_for_server", i,
                                          outcome = "VERIFY_RESIZE", outcome))
          /\ pc' = "confirm_resize_server"
          /\ UNCHANGED <<i, result, locals, backend>>
    /\ UNCHANGED <<backend0, args, futures, yielded, prev_result, runs>>

\* server = conn.compute.wait_for_server(server, status='VERIFY_RESIZE', wait=300)
ResizeWait ==
    /\ args.op = "resize"
    /\ pc = "wait_for_server"
    /\ \E outcome \in WaitOutcomes :
          CASE outcome = "VERIFY_RESIZE" ->
                 /\ locals' = [server |-> [locals.server EXCEPT
                                              !.status = "VERIFY_RESIZE",
                                              !.flavor = args.new_flavor]]
                 /\ backend' = WithServer(backend, locals'.server)
                 /\ calls' = Append(calls, Event("wait_for_server", i, TRUE, outcome))
                 /\ pc' = "confirm_resize_server"
                 /\ UNCHANGED <<i, result>>
            [] outcome = "timeout" ->
                 /\ ResizeFailed(<<Event("wait_for_server", i, FALSE, outcome)>>)
                 /\ UNCHANGED backend
            [] outcome = "ERROR" ->
                 /\ ResizeFailed(<<Event("wait_for_server", i, FALSE, outcome)>>)
                 /\ backend' = WithServer(backend,
                                  [locals.server EXCEPT !.status = "ERROR"])
    /\ UNCHANGED <<backend0, args, futures, yielded, prev_result, runs>>

\* conn.compute.confirm_resize_server(server); results['success'].append(...)
ResizeConfirm ==
    /\ args.op = "resize"
    /\ pc = "confirm_resize_server"
    /\ \E ok \in BOOLEAN :
          IF ok
          THEN /\ backend' = WithServer(backend,
                                [locals.server EXCEPT !.status = "ACTIVE"])
               /\ result' = [result EXCEPT !.success = Append(@, args.server_names[i])]
               /\ calls' = calls \o
                      <<Event("confirm_resize_server", i, TRUE, "confirmed"),
                        Event("results.append", i, TRUE, "success")>>
               /\ i' = i + 1
               /\ pc' = "find_server"
               /\ locals' = NoLocals
          ELSE /\ ResizeFailed(<<Event("confirm_resize_server", i, FALSE, "threw")>>)
               /\ UNCHANGED backend
    /\ UNCHANGED <<backend0, args, futures, yielded, prev_result, runs>>

ResizeKinds == {"absent", "healthy", "stopped", "dup"}

InitResize ==
    /\ \E kind \in [Names -> ResizeKinds], fl \in SUBSET {"m1.large"} :
          backend = MkBackend(UNION {ServersOfKind(NameIndex(n), n, kind[n]) : n \in Names},
                              {"m1.small"} \cup fl)
    /\ backend0 = backend
    /\ \E names \in SeqsUpTo(Names, MaxNames) :
          args = [op |-> "resize", server_names |-> names,
                  new_flavor |-> "m1.large", max_workers |-> 1]
    /\ pc = "find_flavor"
    /\ i = 1
    /\ locals = NoLocals
    /\ futures = <<>>
    /\ yielded = {}
    /\ result = EmptyResize
    /\ prev_result = EmptyResize
    /\ runs = 1
    /\ calls = <<>>

NextResize ==
    \/ ResizeFindFlavor
    \/ ResizeFindServer
    \/ ResizeRequest
    \/ ResizeWait
    \/ ResizeConfirm

SpecResize == InitResize /\ [][NextResize]_vars

-----------------------------------------------------------------------------
(* Properties of batch_resize_instances *)

\* positions of the log that belong to unit k
EventsOf(k) == {p \in DOMAIN calls : calls[p].unit = k}

\* the buckets unit k was appended to
AppendsOf(k) ==
    {p \in EventsOf(k) : calls[p].call = "results.append"}

\* unit k issued the call, and it returned (ok) or threw (~ok)
Issued(k, call, ok) ==
    \E p \in EventsOf(k) : calls[p].call = call /\ calls[p].ok = ok

FlavorMissing == ~find_flavor(backend0, args.new_flavor)

\* C2: when the target flavor does not exist, batch_resize_instances raises
\* before any server is looked up, resized, waited on or confirmed, and the
\* backend is left as it was.
C2_ResizeFailsFast ==
    (args.op = "resize" /\ FlavorMissing) =>
        /\ pc \in {"find_flavor", "raised"}
        /\ \A p \in DOMAIN calls : calls[p].call = "find_flavor"
        /\ backend = backend0
        /\ result = EmptyResize

\* the call has raised for a list of two names
C2_Witness ==
    /\ args.op = "resize" /\ FlavorMissing
    /\ pc = "raised"
    /\ Len(args.server_names) = 2
    /\ calls # <<>>

\* C9: with the flavor found, batch_resize_instances returns with every
\* input item in exactly one of success / failed; an unresolved name is in
\* failed and nothing threw for it; a unit for which a call threw is in
\* failed; and every unit has been processed.
C9_ResizePartition ==
    /\ (args.op = "resize" /\ ~FlavorMissing) => pc # "raised"
    /\ (args.op = "resize" /\ pc = "done") =>
        /\ \A n \in Names :
              Count(result.success, n) + Count(result.failed, n)
                  = Count(args.server_names, n)
        /\ \A n \in Range(args.server_names) :
              Count(args.server_names, n) = 1 =>
                  (n \in Range(result.success)) # (n \in Range(result.failed))
        /\ \A k \in DOMAIN args.server_names :
              /\ Cardinality(AppendsOf(k)) = 1
              /\ Issued(k, "find_server", TRUE) \/ Issued(k, "find_server", FALSE)
              /\ (\E p \in EventsOf(k) : calls[p].info = "None") =>
                    /\ \A p \in AppendsOf(k) : calls[p].info = "failed"
                    /\ \A p \in EventsOf(k) : calls[p].ok
              /\ (\E p \in EventsOf(k) : ~calls[p].ok) =>
                    \A p \in AppendsOf(k) : calls[p].info = "failed"

\* a returned resize of two names: a call threw for the first, and the
\* second was resized
C9_Witness ==
    /\ args.op = "resize" /\ pc = "done"
    /\ Len(args.server_names) = 2
    /\ \E p \in EventsOf(1) : ~calls[p].ok
    /\ Len(result.failed) = 1
    /\ Len(result.success) = 1
    /\ result.success[1] = args.server_names[2]

\* C10: a confirmation is issued for a server only after its resize was
\* requested and the wait then reported VERIFY_RESIZE; after a wait that
\* timed out or failed no confirmation is issued for that server; and a name
\* is put in success only after its confirmation returned without error.
C10_ResizeTwoPhase ==
    args.op = "resize" =>
        /\ \A p \in DOMAIN calls :
              calls[p].call = "confirm_resize_server" =>
                  \E q, r \in 1..(p - 1) :
                      /\ q < r
                      /\ calls[q] = Event("resize_server", calls[p].unit, TRUE, args.new_flavor)
                      /\ calls[r] = Event("wait_for_server", calls[p].unit, TRUE, "VERIFY_RESIZE")
        /\ \A p \in DOMAIN calls :
              (calls[p].call = "wait_for_server" /\ calls[p].info # "VERIFY_RESIZE") =>
                  ~ \E q \in EventsOf(calls[p].unit) :
                        calls[q].call = "confirm_resize_server"
        /\ \A p \in DOMAIN calls :
              (calls[p].call = "results.append" /\ calls[p].info = "success") =>
                  \E q \in 1..(p - 1) :
                      calls[q] = Event("confirm_resize_server", calls[p].unit, TRUE, "confirmed")
        /\ Len(result.success) =
              Cardinality({p \in DOMAIN calls : /\ calls[p].call = "results.append"
                                                 /\ calls[p].info = "success"})

\* one server was confirmed and put in success, and the wait for another
\* timed out
C10_Witness ==
    /\ args.op = "resize" /\ pc = "done"
    /\ \E p \in DOMAIN calls : calls[p].call = "confirm_resize_server" /\ calls[p].ok
    /\ \E p \in DOMAIN calls : calls[p].call = "wait_for_server" /\ calls[p].info = "timeout"
    /\ result.success # <<>>

-----------------------------------------------------------------------------
(* batch_snapshot_instances *)

\* f"{server_name}-snapshot-{int(time.time())}", the time read being args.now
SnapshotName(server_name, now) == server_name \o <<"-snapshot-", now>>

\* conn.compute.create_server_image(server, name) when it returns: the
\* backend holds one more image, whose id is returned
create_server_image(b, server, name) ==
    [b EXCEPT !.images = @ \cup {[id |-> b.next_id, name |-> name,
                                  server_id |-> server.id]},
              !.next_id = @ + 1]

\* SnapshotSubmit without the test of the server found
SnapshotSubmit_NoTest ==
    /\ args.op = "snapshot"
    /\ pc = "submit"
    /\ IF i > Len(args.server_names)
       THEN /\ pc' = "collect"
            /\ UNCHANGED <<i, futures, calls>>
       ELSE LET r == find_server(backend, args.server_names[i])
            IN  IF r.raised
                THEN /\ calls' = Append(calls, Event("find_server", i, FALSE, "read"))
                     /\ pc' = "raising"
                     /\ UNCHANGED <<i, futures>>
                ELSE /\ calls' = Append(calls, Event("find_server", i, TRUE,
                                       IF r.found THEN "found" ELSE "None"))
                     /\ futures' = Append(futures,
                            Future("create_server_image",
                                   [server |-> r.server, unit |-> i,
                                    snapshot_name |->
                                        SnapshotName(args.server_names[i], args.now)]))
                     /\ i' = i + 1
                     /\ pc' = pc
    /\ UNCHANGED <<backend, backend0, args, locals, yielded, result,
                   prev_result, runs>>

\* for server_name in server_names: find_server, and submit if it is found.
\* An exception of find_server leaves the with block, which waits for the
\* futures submitted so far before the exception goes on to the caller.
SnapshotSubmit ==
    /\ args.op = "snapshot"
    /\ pc = "submit"
    /\ IF i > Len(args.server_names)
       THEN /\ pc' = "collect"
            /\ UNCHANGED <<i, futures, calls>>
       ELSE LET r == find_server(backend, args.server_names[i])
            IN  IF r.raised
                THEN /\ calls' = Append(calls, Event("find_server", i, FALSE, "read"))
                     /\ pc' = "raising"
                     /\ UNCHANGED <<i, futures>>
                ELSE /\ calls' = Append(calls, Event("find_server", i, TRUE,
                                       IF r.found THEN "found" ELSE "None"))
                     /\ futures' = IF r.found
                                   THEN Append(futures,
                                          Future("create_server_image",
                                                 [server |-> r.server, unit |-> i,
                                                  snapshot_name |->
                                                      SnapshotName(args.server_names[i], args.now)]))
                                   ELSE futures
                     /\ i' = i + 1
                     /\ pc' = pc
    /\ UNCHANGED <<backend, backend0, args, locals, yielded, result,
                   prev_result, runs>>

\* a worker thread runs create_server_image, which returns the image or throws
SnapshotWorkerFinish ==
    \E f \in Running :
        /\ futures[f].fn = "create_server_image"
        /\ \E ok \in BOOLEAN :
              IF ok
              THEN /\ backend' = create_server_image(backend, futures[f].arg.server,
                                                     futures[f].arg.snapshot_name)
                   /\ futures' = [futures EXCEPT ![f].state = "done",
                                                  ![f].value = backend.next_id]
                   /\ calls' = Append(calls, Event("create_server_image",
                                         futures[f].arg.unit, TRUE, backend.next_id))
              ELSE /\ backend' = backend
                   /\ futures' = [futures EXCEPT ![f].state = "done",
                                                  ![f].raised = TRUE]
                   /\ calls' = Append(calls, Event("create_server_image",
                                         futures[f].arg.unit, FALSE, 0))
        /\ UNCHANGED <<backend0, args, pc, i, locals, yielded, result,
                       prev_result, runs>>

\* for future in as_completed(futures): one iteration, or the return
SnapshotCollect ==
    /\ args.op = "snapshot"
    /\ pc = "collect"
    /\ IF yielded = DOMAIN futures
       THEN /\ pc' = "done"
            /\ UNCHANGED <<yielded, result>>
       ELSE \E f \in Done \ yielded :
            /\ yielded' = yielded \cup {f}
            /\ result' = IF futures[f].raised THEN result
                         ELSE Append(result,
                                [name |-> futures[f].arg.snapshot_name,
                                 id |-> futures[f].value])
            /\ pc' = pc
    /\ UNCHANGED <<backend, backend0, args, i, locals, futures, prev_result,
                   runs, calls>>

\* the exception leaves the with block once every submitted future is done
SnapshotRaise ==
    /\ args.op = "snapshot"
    /\ pc = "raising"
    /\ Done = DOMAIN futures
    /\ pc' = "raised"
    /\ UNCHANGED <<backend, backend0, args, i, locals, futures, yielded,
                   result, prev_result, runs, calls>>

SnapshotKinds == {"absent", "healthy", "dup"}

InitSnapshot ==
    /\ \E kind \in [Names -> SnapshotKinds] :
          backend = MkBackend(UNION {ServersOfKind(NameIndex(n), n, kind[n]) : n \in Names},
                              {"m1.small"})
    /\ backend0 = backend
    /\ \E names \in SeqsUpTo(Names, MaxNames), w \in 1..MaxWorkers :
          args = [op |-> "snapshot", server_names |-> names, max_workers |-> w,
                  now |-> "t0"]
    /\ pc = "submit"
    /\ i = 1
    /\ locals = NoLocals
    /\ futures = <<>>
    /\ yielded = {}
    /\ result = <<>>
    /\ prev_result = <<>>
    /\ runs = 1
    /\ calls = <<>>

NextSnapshot ==
    \/ SnapshotSubmit
    \/ WorkerStart
    \/ SnapshotWorkerFinish
    \/ SnapshotCollect
    \/ SnapshotRaise

SpecSnapshot == InitSnapshot /\ [][NextSnapshot]_vars

-----------------------------------------------------------------------------
(* Properties of batch_snapshot_instances *)

\* the name at position k resolved to a live server when the call started
Resolved(k) == find_server(backend0, args.server_names[k]).found

\* units whose image-creation request returned
Snapshotted ==
    {k \in DOMAIN args.server_names : Issued(k, "create_server_image", TRUE)}

\* C7: in batch_snapshot_instances a name that does not resolve causes no
\* image-creation request and no record in the returned list (there is no
\* error bucket: the value returned is the list alone); the returned list
\* holds exactly one {name, id} record per resolved server whose
\* image-creation request returned.
C7_SnapshotSkipsUnresolved ==
    /\ (args.op = "snapshot") =>
          \A p \in DOMAIN calls :
              calls[p].call = "create_server_image" => Resolved(calls[p].unit)
    /\ (args.op = "snapshot" /\ pc = "done") =>
        /\ \A k \in DOMAIN args.server_names :
              ~Resolved(k) =>
                  \A p \in DOMAIN result :
                      result[p].name # SnapshotName(args.server_names[k], args.now)
        /\ Len(result) = Cardinality(Snapshotted)
        /\ \A p, q \in DOMAIN result : p # q => result[p].id # result[q].id
        /\ \A k \in Snapshotted :
              \E p \in DOMAIN result : \E e \in EventsOf(k) :
                  /\ calls[e].call = "create_server_image"
                  /\ calls[e].ok
                  /\ result[p] = [name |-> SnapshotName(args.server_names[k], args.now),
                                  id |-> calls[e].info]
        /\ DOMAIN result # {} => DOMAIN result[1] = {"name", "id"}

\* a returned snapshot batch with an unresolved name, a resolved server
\* whose image was created, and so one record
C7_Witness ==
    /\ args.op = "snapshot" /\ pc = "done"
    /\ Len(args.server_names) = 2
    /\ \E k \in DOMAIN args.server_names : ~Resolved(k)
    /\ Len(result) = 1

-----------------------------------------------------------------------------
(* launch_instance *)

\* the parameters launch_instance declares
LaunchParams == {"name", "image_name", "flavor_name", "network_name",
                 "security_group_name", "key_name", "user_data", "enable_nrdot"}

\* the value of a keyword argument, or the parameter's default
Arg(kwargs, key, default) ==
    IF key \in DOMAIN kwargs THEN kwargs[key] ELSE default

\* conn.compute.find_image(name): the image's id, or 0 for None
find_image(b, name) ==
    IF \E im \in b.images : im.name = name
    THEN (CHOOSE im \in b.images : im.name = name).id
    ELSE 0

\* conn.network.find_network(name): the network's id, or 0 for None
find_network(b, name) ==
    IF \E n \in b.networks : n.name = name
    THEN (CHOOSE n \in b.networks : n.name = name).id
    ELSE 0

\* the ways the backend answers create_server and the wait_for_server after it
LaunchOutcomes == {"ok", "create_fails", "wait_fails"}

LaunchRaised(b, error, events) ==
    [raised |-> TRUE, error |-> error, server |-> NoServer, backend |-> b,
     events |-> events]

\* launch_instance(**kwargs) called for the unit of work u: the server
\* returned or the exception raised, the backend afterwards and the backend
\* calls issued.  A keyword that is not a parameter is a TypeError of the
\* call itself.
launch_instance(b, kwargs, u, outcome) ==
    IF ~(DOMAIN kwargs \subseteq LaunchParams) \/ "name" \notin DOMAIN kwargs
    THEN LaunchRaised(b, "TypeError", <<>>)
    ELSE
    LET image_name == Arg(kwargs, "image_name", "cirros-0.5.2-x86_64-disk")
        flavor_name == Arg(kwargs, "flavor_name", "m1.small")
        network_name == Arg(kwargs, "network_name", "None")
        security_group_name == Arg(kwargs, "security_group_name", "None")
        image == find_image(b, image_name)
        networks == IF network_name # "None" /\ find_network(b, network_name) # 0
                    THEN <<find_network(b, network_name)>> ELSE <<>>
        security_groups == IF /\ security_group_name # "None"
                              /\ security_group_name \in b.security_groups
                           THEN <<security_group_name>> ELSE <<>>
        server == [id |-> b.next_id, name |-> kwargs.name, status |-> "BUILD",
                   addresses |-> {}, flavor |-> flavor_name, image |-> image,
                   networks |-> networks, security_groups |-> security_groups]
        created == [b EXCEPT !.servers = @ \cup {server}, !.next_id = @ + 1]
        lookups == <<Event("find_image", u, TRUE, "read"),
                     Event("find_flavor", u, TRUE, "read")>>
    IN  IF image = 0
        THEN LaunchRaised(b, "ValueError", <<Event("find_image", u, TRUE, "None")>>)
        ELSE IF ~find_flavor(b, flavor_name)
        THEN LaunchRaised(b, "ValueError",
                 <<Event("find_image", u, TRUE, "read"),
                   Event("find_flavor", u, TRUE, "None")>>)
        ELSE IF outcome = "create_fails"
        THEN LaunchRaised(b, "SDKException",
                 lookups \o <<Event("create_server", u, FALSE, 0)>>)
        ELSE IF outcome = "wait_fails"
        THEN LaunchRaised(WithServer(created, [server EXCEPT !.status = "ERROR"]),
                 "ResourceFailure",
                 lookups \o <<Event("create_server", u, TRUE, server.id),
                              Event("wait_for_server", u, FALSE, "ERROR")>>)
        ELSE LET active == [server EXCEPT !.status = "ACTIVE",
                                          !.addresses = {"10.0.0.9"}]
             IN  [raised |-> FALSE, error |-> "none", server |-> active,
                  backend |-> WithServer(created, active),
                  events |-> lookups \o
                      <<Event("create_server", u, TRUE, server.id),
                        Event("wait_for_server", u, TRUE, "ACTIVE")>>]

-----------------------------------------------------------------------------
(* batch_launch_instances *)

\* the instance configs the caller may pass
LaunchConfigs ==
    {[name |-> <<"a">>, image_name |-> "cirros", flavor_name |-> "m1.small",
      network_name |-> "app-net"],
     [name |-> <<"b">>, image_name |-> "ubuntu", flavor_name |-> "m1.small",
      network_name |-> "app-net", security_group_name |-> "web-sg"],
     [name |-> <<"a">>, image_name |-> "no-image", flavor_name |-> "m1.small",
      network_name |-> "app-net"],
     [name |-> <<"b">>, image_name |-> "cirros", flavor_name |-> "no-flavor"],
     [image_name |-> "cirros", flavor_name |-> "m1.small"]}

\* for config in instance_configs: executor.submit(self.launch_instance, **config)
LaunchSubmit ==
    /\ args.op = "launch"
    /\ args.parallel
    /\ pc = "submit"
    /\ IF i <= Len(args.instance_configs)
       THEN /\ futures' = Append(futures,
                   Future("launch_instance", args.instance_configs[i]))
            /\ i' = i + 1
            /\ pc' = pc
       ELSE /\ pc' = "collect"
            /\ UNCHANGED <<futures, i>>
    /\ UNCHANGED <<backend, backend0, args, locals, yielded, result,
                   prev_result, runs, calls>>

\* a worker thread runs launch_instance to its end
LaunchWorkerFinish ==
    \E f \in Running :
        /\ futures[f].fn = "launch_instance"
        /\ \E outcome \in LaunchOutcomes :
              LET r == launch_instance(backend, futures[f].arg, f, outcome)
              IN  /\ backend' = r.backend
                  /\ futures' = [futures EXCEPT ![f].state = "done",
                                                 ![f].raised = r.raised,
                                                 ![f].value = r.server]
                  /\ calls' = calls \o r.events \o
                         <<Event("launch_instance", f, ~r.raised, r.server.id)>>
        /\ UNCHANGED <<backend0, args, pc, i, locals, yielded, result,
                       prev_result, runs>>

\* LaunchCollect appending whatever the future holds, failed or not
LaunchCollect_AppendsFailed ==
    /\ args.op = "launch"
    /\ args.parallel
    /\ pc = "collect"
    /\ IF yielded = DOMAIN futures
       THEN /\ pc' = "done"
            /\ UNCHANGED <<yielded, result>>
       ELSE \E f \in Done \ yielded :
            /\ yielded' = yielded \cup {f}
            /\ result' = Append(result, futures[f].value)
            /\ pc' = pc
    /\ UNCHANGED <<backend, backend0, args, i, locals, futures, prev_result,
                   runs, calls>>

\* for future in as_completed(futures): one iteration, or the return
LaunchCollect ==
    /\ args.op = "launch"
    /\ args.parallel
    /\ pc = "collect"
    /\ IF yielded = DOMAIN futures
       THEN /\ pc' = "done"
            /\ UNCHANGED <<yielded, result>>
       ELSE \E f \in Done \ yielded :
            /\ yielded' = yielded \cup {f}
            /\ result' = IF futures[f].raised THEN result
                         ELSE Append(result, futures[f].value)
            /\ pc' = pc
    /\ UNCHANGED <<backend, backend0, args, i, locals, futures, prev_result,
                   runs, calls>>

\* LaunchSerial going through instance_configs from its end
LaunchSerial_Reversed ==
    /\ args.op = "launch"
    /\ ~args.parallel
    /\ pc = "submit"
    /\ IF i > Len(args.instance_configs)
       THEN /\ pc' = "done"
            /\ UNCHANGED <<i, backend, result, calls>>
       ELSE \E outcome \in LaunchOutcomes :
            LET u == Len(args.instance_configs) + 1 - i
                r == launch_instance(backend, args.instance_configs[u], u, outcome)
            IN  /\ backend' = r.backend
                /\ result' = IF r.raised THEN result ELSE Append(result, r.server)
                /\ calls' = calls \o r.events \o
                       <<Event("launch_instance", u, ~r.raised, r.server.id)>>
                /\ i' = i + 1
                /\ pc' = pc
    /\ UNCHANGED <<backend0, args, locals, futures, yielded, prev_result, runs>>

\* parallel=False: for config in instance_configs: one iteration, or the return
LaunchSerial ==
    /\ args.op = "launch"
    /\ ~args.parallel
    /\ pc = "submit"
    /\ IF i > Len(args.instance_configs)
       THEN /\ pc' = "done"
            /\ UNCHANGED <<i, backend, result, calls>>
       ELSE \E outcome \in LaunchOutcomes :
            LET r == launch_instance(backend, args.instance_configs[i], i, outcome)
            IN  /\ backend' = r.backend
                /\ result' = IF r.raised THEN result ELSE Append(result, r.server)
                /\ calls' = calls \o r.events \o
                       <<Event("launch_instance", i, ~r.raised, r.server.id)>>
                /\ i' = i + 1
                /\ pc' = pc
    /\ UNCHANGED <<backend0, args, locals, futures, yielded, prev_result, runs>>

InitLaunch ==
    /\ backend = MkBackend({}, {"m1.small"})
    /\ backend0 = backend
    /\ \E configs \in SeqsUpTo(LaunchConfigs, MaxNames), w \in 1..MaxWorkers,
          par \in BOOLEAN :
          args = [op |-> "launch", instance_configs |-> configs,
                  parallel |-> par, max_workers |-> w]
    /\ pc = "submit"
    /\ i = 1
    /\ locals = NoLocals
    /\ futures = <<>>
    /\ yielded = {}
    /\ result = <<>>
    /\ prev_result = <<>>
    /\ runs = 1
    /\ calls = <<>>

NextLaunch ==
    \/ LaunchSubmit
    \/ WorkerStart
    \/ LaunchWorkerFinish
    \/ LaunchCollect
    \/ LaunchSerial

SpecLaunch == InitLaunch /\ [][NextLaunch]_vars

-----------------------------------------------------------------------------
(* Properties of batch_launch_instances *)

\* units whose launch_instance returned a server
Launched ==
    {k \in DOMAIN args.instance_configs : Issued(k, "launch_instance", TRUE)}

\* the server launch_instance returned for unit k
ServerOf(k) ==
    CHOOSE srv \in backend.servers :
        \E e \in EventsOf(k) : /\ calls[e].call = "launch_instance"
                               /\ calls[e].ok
                               /\ calls[e].info = srv.id

\* C6: batch_launch_instances, parallel or serial, does not raise; the list
\* it returns is no longer than the list of specs, its servers belong to
\* distinct specs, and they are exactly the servers of the specs whose launch
\* succeeded.
C6_LaunchReturnsSuccesses ==
    /\ args.op = "launch" => pc \notin {"raising", "raised"}
    /\ (args.op = "launch" /\ pc = "done") =>
        /\ Len(result) <= Len(args.instance_configs)
        /\ Len(result) = Cardinality(Launched)
        /\ \A p, q \in DOMAIN result : p # q => result[p].id # result[q].id
        /\ \A k \in Launched :
              /\ ServerOf(k).name = args.instance_configs[k].name
              /\ \E p \in DOMAIN result : result[p] = ServerOf(k)
        /\ \A p \in DOMAIN result :
              \E k \in Launched : result[p] = ServerOf(k)

\* a returned parallel launch of two specs of which one failed
C6_Witness ==
    /\ args.op = "launch" /\ pc = "done"
    /\ args.parallel
    /\ Len(args.instance_configs) = 2
    /\ Len(result) = 1
    /\ \E f \in DOMAIN futures : futures[f].raised

-----------------------------------------------------------------------------
(* rolling_update *)

\* time.sleep(30) between two batches
SleepSeconds == 30

\* name.startswith(prefix)
startswith(name, prefix) ==
    /\ Len(prefix) <= Len(name)
    /\ SubSeq(name, 1, Len(prefix)) = prefix

RECURSIVE ById(_)
\* the servers of a set as a list, in the order of their ids
ById(S) ==
    IF S = {} THEN <<>>
    ELSE LET m == CHOOSE x \in S : \A y \in S : x.id <= y.id
         IN  <<m>> \o ById(S \ {m})

\* [s for s in conn.compute.servers() if s.name.startswith(server_prefix)]
MatchingServers(b, server_prefix) ==
    ById({srv \in b.servers : startswith(srv.name, server_prefix)})

\* batch = servers[i:i + batch_size], i counting from 0
Batch == SubSeq(locals.servers, i + 1,
                IF i + args.batch_size < Len(locals.servers)
                THEN i + args.batch_size ELSE Len(locals.servers))

\* position in servers of the server the inner loop is at
Unit == i + locals.j

\* RollingNext leaving the batch at the first failure, as a break would
RollingNext_Breaks(events) ==
    /\ calls' = calls \o events
    /\ locals' = [locals EXCEPT !.j = @ + 1, !.server = NoServer]
    /\ pc' = "end_of_batch"
    /\ UNCHANGED i

\* the except branch: log, and on to the next server of the batch
RollingNext(events) ==
    /\ calls' = calls \o events
    /\ locals' = [locals EXCEPT !.j = @ + 1, !.server = NoServer]
    /\ pc' = "create_server_image"
    /\ UNCHANGED i

\* servers = [...]; if not servers: return
RollingList ==
    /\ args.op = "rolling"
    /\ pc = "list"
    /\ locals' = [servers |-> MatchingServers(backend, args.server_prefix),
                  j |-> 1, server |-> NoServer]
    /\ calls' = Append(calls, Event("servers", 0, TRUE, "read"))
    /\ pc' = IF locals'.servers = <<>> THEN "done" ELSE "batch"
    /\ UNCHANGED <<backend, backend0, args, i, futures, yielded, result,
                   prev_result, runs>>

\* RollingBatch listing the matching servers again for every window
RollingBatch_Relists ==
    /\ args.op = "rolling"
    /\ pc = "batch"
    /\ IF i >= Len(locals.servers)
       THEN /\ pc' = "done"
            /\ UNCHANGED <<locals, calls>>
       ELSE /\ calls' = Append(calls, Event("batch", 0, TRUE, Len(Batch)))
            /\ locals' = [locals EXCEPT !.j = 1,
                              !.servers = MatchingServers(backend, args.server_prefix)]
            /\ pc' = "create_server_image"
    /\ UNCHANGED <<backend, backend0, args, i, futures, yielded, result,
                   prev_result, runs>>

\* for i in range(0, len(servers), batch_size): batch = servers[i:i + batch_size]
RollingBatch ==
    /\ args.op = "rolling"
    /\ pc = "batch"
    /\ IF i >= Len(locals.servers)
       THEN /\ pc' = "done"
            /\ UNCHANGED <<locals, calls>>
       ELSE /\ calls' = Append(calls, Event("batch", 0, TRUE, Len(Batch)))
            /\ locals' = [locals EXCEPT !.j = 1]
            /\ pc' = "create_server_image"
    /\ UNCHANGED <<backend, backend0, args, i, futures, yielded, result,
                   prev_result, runs>>

\* RollingSnapshot going on to the deletion when the snapshot threw
RollingSnapshot_IgnoresFailure ==
    /\ args.op = "rolling"
    /\ pc = "create_server_image"
    /\ IF locals.j > Len(Batch)
       THEN /\ pc' = "end_of_batch"
            /\ UNCHANGED <<backend, locals, calls, i>>
       ELSE \E ok \in BOOLEAN :
            /\ backend' = IF ok
                          THEN create_server_image(backend, Batch[locals.j],
                                   Batch[locals.j].name \o <<"-pre-update-", args.now>>)
                          ELSE backend
            /\ calls' = Append(calls, Event("create_server_image", Unit, ok,
                                            IF ok THEN backend.next_id ELSE 0))
            /\ locals' = [locals EXCEPT !.server = Batch[locals.j]]
            /\ pc' = "delete_server"
            /\ UNCHANGED i
    /\ UNCHANGED <<backend0, args, futures, yielded, result, prev_result, runs>>

\* for server in batch: conn.compute.create_server_image(server, snapshot_name),
\* which throws when the backend no longer holds the server
RollingSnapshot ==
    /\ args.op = "rolling"
    /\ pc = "create_server_image"
    /\ IF locals.j > Len(Batch)
       THEN /\ pc' = "end_of_batch"
            /\ UNCHANGED <<backend, locals, calls, i>>
       ELSE \E ok \in BOOLEAN :
            IF ok /\ Batch[locals.j].id \in ServerIds(backend)
            THEN /\ backend' = create_server_image(backend, Batch[locals.j],
                        Batch[locals.j].name \o <<"-pre-update-", args.now>>)
                 /\ calls' = Append(calls, Event("create_server_image", Unit,
                                                 TRUE, backend.next_id))
                 /\ locals' = [locals EXCEPT !.server = Batch[locals.j]]
                 /\ pc' = "delete_server"
                 /\ UNCHANGED i
            ELSE /\ RollingNext(<<Event("create_server_image", Unit, FALSE, 0)>>)
                 /\ UNCHANGED backend
    /\ UNCHANGED <<backend0, args, futures, yielded, result, prev_result, runs>>

\* conn.compute.delete_server(server)
RollingDelete ==
    /\ args.op = "rolling"
    /\ pc = "delete_server"
    /\ \E ok \in BOOLEAN :
          IF ok
          THEN /\ backend' = SetStatus(backend, locals.server.id, "DELETING")
               /\ calls' = Append(calls, Event("delete_server", Unit, TRUE,
                                               locals.server.id))
               /\ pc' = "wait_for_delete"
               /\ UNCHANGED <<i, locals>>
          ELSE /\ RollingNext(<<Event("delete_server", Unit, FALSE,
                                      locals.server.id)>>)
               /\ UNCHANGED backend
    /\ UNCHANGED <<backend0, args, futures, yielded, result, prev_result, runs>>

\* conn.compute.wait_for_delete(server)
RollingWaitForDelete ==
    /\ args.op = "rolling"
    /\ pc = "wait_for_delete"
    /\ \E ok \in BOOLEAN :
          IF ok
          THEN /\ backend' = [backend EXCEPT !.servers =
                                 {x \in @ : x.id # locals.server.id}]
               /\ calls' = Append(calls, Event("wait_for_delete", Unit, TRUE,
                                               locals.server.id))
               /\ pc' = "launch_instance"
               /\ UNCHANGED <<i, locals>>
          ELSE /\ RollingNext(<<Event("wait_for_delete", Unit, FALSE,
                                      locals.server.id)>>)
               /\ UNCHANGED backend
    /\ UNCHANGED <<backend0, args, futures, yielded, result, prev_result, runs>>

\* the keyword arguments rolling_update passes to launch_instance
RollingLaunchArgs(server, new_image) ==
    [name |-> server.name, image_name |-> new_image,
     flavor_name |-> server.flavor, networks |-> server.networks]

\* new_server = self.launch_instance(name=..., image_name=..., flavor_name=...,
\* networks=networks)
RollingLaunch ==
    /\ args.op = "rolling"
    /\ pc = "launch_instance"
    /\ \E outcome \in LaunchOutcomes :
          LET r == launch_instance(backend,
                       RollingLaunchArgs(locals.server, args.new_image),
                       Unit, outcome)
          IN  /\ backend' = r.backend
              /\ RollingNext(r.events \o
                     <<Event("launch_instance", Unit, ~r.raised, r.error)>>)
    /\ UNCHANGED <<backend0, args, futures, yielded, result, prev_result, runs>>

\* RollingEndOfBatch sleeping after every batch, the last one too
RollingEndOfBatch_AlwaysSleeps ==
    /\ args.op = "rolling"
    /\ pc = "end_of_batch"
    /\ calls' = Append(calls, Event("sleep", 0, TRUE, SleepSeconds))
    /\ i' = i + args.batch_size
    /\ pc' = "batch"
    /\ UNCHANGED <<backend, backend0, args, locals, futures, yielded, result,
                   prev_result, runs>>

\* if i + batch_size < len(servers): time.sleep(30)
RollingEndOfBatch ==
    /\ args.op = "rolling"
    /\ pc = "end_of_batch"
    /\ calls' = IF i + args.batch_size < Len(locals.servers)
                THEN Append(calls, Event("sleep", 0, TRUE, SleepSeconds))
                ELSE calls
    /\ i' = i + args.batch_size
    /\ pc' = "batch"
    /\ UNCHANGED <<backend, backend0, args, locals, futures, yielded, result,
                   prev_result, runs>>

Digits == <<"1", "2", "3", "4", "5", "6", "7", "8", "9">>

\* the name of the k-th server of the backend: a1, b2, a3, b4, ...
RollingName(k) == <<IF k % 2 = 1 THEN "a" ELSE "b", Digits[k]>>

InitRolling ==
    /\ \E n \in 0..MaxServers :
          backend = MkBackend({MkServer(k, RollingName(k), "ACTIVE", {"10.0.0.1"}) :
                                  k \in 1..n}, {"m1.small"})
    /\ backend0 = backend
    /\ \E prefix \in {<<>>, <<"a">>, <<"b">>}, size \in 1..MaxBatch,
          image \in {"ubuntu", "no-image"} :
          args = [op |-> "rolling", server_prefix |-> prefix,
                  new_image |-> image, batch_size |-> size, max_workers |-> 1,
                  now |-> "t0"]
    /\ pc = "list"
    /\ i = 0
    /\ locals = [servers |-> <<>>, j |-> 1, server |-> NoServer]
    /\ futures = <<>>
    /\ yielded = {}
    /\ result = <<>>
    /\ prev_result = <<>>
    /\ runs = 1
    /\ calls = <<>>

NextRolling ==
    \/ RollingList
    \/ RollingBatch
    \/ RollingSnapshot
    \/ RollingDelete
    \/ RollingWaitForDelete
    \/ RollingLaunch
    \/ RollingEndOfBatch

SpecRolling == InitRolling /\ [][NextRolling]_vars

-----------------------------------------------------------------------------
(* Properties of rolling_update *)

IsMarker(e) == e.call \in {"batch", "sleep"}

\* the "Processing batch" and sleep events of the log, in order
Markers == SelectSeq(calls, IsMarker)

\* number of events of the given call among the first p - 1 of the log
Before(p, call) == Cardinality({q \in 1..(p - 1) : calls[q].call = call})

\* ceil(n / b)
CeilDiv(n, b) == (n + b - 1) \div b

\* C3: rolling_update processes n >= 1 matched servers with window size
\* b >= 1 in ceil(n/b) consecutive windows, each of b servers except
\* possibly the last, every server in the window of its position; the delay
\* of 30 occurs once after every window but the last, and not after the last.
C3_RollingWindows ==
    (args.op = "rolling" /\ pc = "done") =>
        LET n == Len(locals.servers)
            b == args.batch_size
            w == CeilDiv(n, b)
        IN  /\ n = 0 => Markers = <<>>
            /\ n >= 1 =>
                /\ Len(Markers) = 2 * w - 1
                /\ \A p \in DOMAIN Markers :
                      IF p % 2 = 1
                      THEN /\ Markers[p].call = "batch"
                           /\ Markers[p].info =
                                 (IF (p + 1) \div 2 < w THEN b ELSE n - b * (w - 1))
                      ELSE /\ Markers[p].call = "sleep"
                           /\ Markers[p].info = 30
                /\ \A u \in 1..n : EventsOf(u) # {}
                /\ \A p \in DOMAIN calls :
                      calls[p].unit >= 1 =>
                          /\ Before(p, "batch") = CeilDiv(calls[p].unit, b)
                          /\ Before(p, "sleep") = CeilDiv(calls[p].unit, b) - 1

\* five matched servers were processed with window size 2
C3_Witness ==
    /\ args.op = "rolling" /\ pc = "done"
    /\ Len(locals.servers) = 5
    /\ args.batch_size = 2
    /\ Len(Markers) = 5

\* the old server of unit u: the matched server at that position
OldServer(u) == locals.servers[u]

\* unit u got as far as the creation of its replacement without a backend
\* failure: snapshot, delete and wait for delete returned, the target image
\* and the old flavor exist, and no create or wait of the launch threw
ReplacementDue(u) ==
    /\ Issued(u, "create_server_image", TRUE)
    /\ Issued(u, "delete_server", TRUE)
    /\ Issued(u, "wait_for_delete", TRUE)
    /\ find_image(backend0, args.new_image) # 0
    /\ find_flavor(backend0, OldServer(u).flavor)
    /\ ~Issued(u, "create_server", FALSE)
    /\ ~Issued(u, "wait_for_server", FALSE)

\* C4: when rolling_update has returned, every matched server whose snapshot
\* and deletion succeeded (the target image and its flavor existing) has a
\* replacement: a new server with the old name, the target image, the old
\* flavor and the old network attachments.
C4_ReplacementCreated ==
    (args.op = "rolling" /\ pc = "done") =>
        \A u \in DOMAIN locals.servers :
            ReplacementDue(u) =>
                \E srv \in backend.servers :
                    /\ srv.id >= FirstNewId
                    /\ srv.name = OldServer(u).name
                    /\ srv.image = find_image(backend0, args.new_image)
                    /\ srv.flavor = OldServer(u).flavor
                    /\ srv.networks = OldServer(u).networks

-----------------------------------------------------------------------------
(* Properties of all the batch operations *)

\* the units of work of the call
Units ==
    CASE args.op = "launch" -> DOMAIN args.instance_configs
      [] args.op = "rolling" -> DOMAIN locals.servers
      [] OTHER -> DOMAIN args.server_names

\* C5: a batch operation (resize once its flavor is found) does not raise
\* when a backend call throws while one unit is handled, the lookup of the
\* unit's server by name included, and when it returns every unit has been
\* processed.
C5_UnitFailureAbortsNothing ==
    ~(args.op = "resize" /\ FlavorMissing) =>
        /\ pc \notin {"raising", "raised"}
        /\ pc = "done" => \A k \in Units : EventsOf(k) # {}

-----------------------------------------------------------------------------
(* Properties of the per-server steps of rolling_update *)

\* the calls that complete a phase of one server, in the order of the phases
\* SnapshotTaken, OldDeleted (delete and wait), NewCreated
PhaseCalls == <<"create_server_image", "delete_server", "wait_for_delete",
                "launch_instance">>

\* the phase-completing calls that returned for unit u, in the order issued
Completed(u) ==
    SelectSeq(calls, LAMBDA e : /\ e.unit = u
                                 /\ e.ok
                                 /\ e.call \in Range(PhaseCalls))

\* unit u issued the call before position p of the log, and it returned
ReturnedBefore(u, call, p) ==
    \E q \in 1..(p - 1) : /\ calls[q].unit = u
                          /\ calls[q].call = call
                          /\ calls[q].ok

\* the calls launch_instance issues, and its own return
LaunchCalls == {"find_image", "find_flavor", "create_server",
                "wait_for_server", "launch_instance"}

\* C11: every matched server of rolling_update moves only along
\* Idle -> SnapshotTaken -> OldDeleted -> NewCreated: its completed steps
\* are a prefix of snapshot, delete, wait for delete, launch; the old server
\* is deleted only after its snapshot request returned, and a replacement is
\* created only after its delete and its wait for delete returned.
C11_RollingPhases ==
    (args.op = "rolling" /\ pc # "list") =>
        /\ \A u \in DOMAIN locals.servers :
              /\ Len(Completed(u)) <= Len(PhaseCalls)
              /\ \A k \in DOMAIN Completed(u) : Completed(u)[k].call = PhaseCalls[k]
        /\ \A p \in DOMAIN calls :
              LET u == calls[p].unit
              IN  /\ calls[p].call = "delete_server" =>
                        ReturnedBefore(u, "create_server_image", p)
                  /\ calls[p].call = "wait_for_delete" =>
                        ReturnedBefore(u, "delete_server", p)
                  /\ calls[p].call \in LaunchCalls =>
                        /\ ReturnedBefore(u, "create_server_image", p)
                        /\ ReturnedBefore(u, "delete_server", p)
                        /\ ReturnedBefore(u, "wait_for_delete", p)
        /\ \A u \in DOMAIN locals.servers :
              LET old == OldServer(u)
              IN  /\ (old.id \notin ServerIds(backend) \/ old \notin backend.servers) =>
                        Issued(u, "create_server_image", TRUE)
                  /\ old.id \notin ServerIds(backend) =>
                        Issued(u, "wait_for_delete", TRUE)
        /\ \A srv \in backend.servers :
              srv.id >= FirstNewId =>
                  \E u \in DOMAIN locals.servers :
                      /\ Issued(u, "wait_for_delete", TRUE)
                      /\ srv.name = OldServer(u).name

\* an old server is gone after its snapshot, its delete and its wait for
\* delete returned, while the snapshot of another server threw and that
\* server is still there
C11_Witness ==
    /\ args.op = "rolling" /\ pc = "done"
    /\ \E u, v \in DOMAIN locals.servers :
          /\ Len(Completed(u)) >= 3
          /\ OldServer(u).id \notin ServerIds(backend)
          /\ Issued(v, "create_server_image", FALSE)
          /\ OldServer(v) \in backend.servers

\* the backend calls of the per-server steps
StepCalls == {"create_server_image", "delete_server", "wait_for_delete",
              "find_image", "find_flavor", "create_server", "wait_for_server"}

\* C12: when a step of rolling_update throws for one server, no later call
\* is issued for that server (it stays at its last completed phase), every
\* other server of its window and of the later windows is still processed,
\* and rolling_update does not raise.
C12_RollingIsolation ==
    args.op = "rolling" =>
        /\ pc \notin {"raising", "raised"}
        /\ \A p \in DOMAIN calls :
              (calls[p].unit >= 1 /\ ~calls[p].ok) =>
                  /\ \A q \in DOMAIN calls :
                        (q > p /\ calls[q].call \in StepCalls) =>
                            calls[q].unit # calls[p].unit
                  /\ Len(Completed(calls[p].unit)) =
                        Cardinality({q \in 1..(p - 1) :
                                        /\ calls[q].unit = calls[p].unit
                                        /\ calls[q].ok
                                        /\ calls[q].call \in Range(PhaseCalls)})
        /\ pc = "done" =>
              \A u \in DOMAIN locals.servers :
                  \E p \in DOMAIN calls : /\ calls[p].unit = u
                                          /\ calls[p].call = "create_server_image"

\* the snapshot of the first server of a window of two threw, and the second
\* server of the window and a server of the next window were processed
C12_Witness ==
    /\ args.op = "rolling" /\ pc = "done"
    /\ args.batch_size = 2
    /\ Len(locals.servers) >= 3
    /\ Issued(1, "create_server_image", FALSE)
    /\ Issued(2, "wait_for_delete", TRUE)
    /\ Issued(3, "delete_server", FALSE)

-----------------------------------------------------------------------------
(* Properties of the classification of health_check_instances *)

\* the servers that had the name n when the call started
Named(n) == {srv \in backend0.servers : srv.name = n}

\* the bucket the contract gives the name n: unknown when the name does not
\* resolve or its lookup throws (several servers of that name), unhealthy
\* when the server is not ACTIVE or has no address, healthy otherwise
ExpectedBucket(n) ==
    IF Cardinality(Named(n)) # 1 THEN "unknown"
    ELSE LET srv == CHOOSE x \in Named(n) : TRUE
         IN  IF srv.status = "ACTIVE" /\ srv.addresses # {} THEN "healthy"
             ELSE "unhealthy"

\* C13: health_check_instances puts a name in unknown when it does not
\* resolve or its classification throws, in unhealthy when it resolves to a
\* server that is not ACTIVE or has no address, and in healthy otherwise.
C13_HealthClassification ==
    (args.op = "health" /\ pc = "done") =>
        /\ \A n \in Range(args.server_names) :
              BucketsOf(result, n) = {ExpectedBucket(n)}
        /\ \A f \in DOMAIN futures :
              futures[f].raised => futures[f].arg \in Range(result.unknown)

\* a returned check of an ACTIVE server without address, found unhealthy,
\* and of a name whose lookup threw, found unknown
C13_Witness ==
    /\ args.op = "health" /\ pc = "done"
    /\ \E n \in Range(result.unhealthy) :
          \E srv \in Named(n) : srv.status = "ACTIVE" /\ srv.addresses = {}
    /\ \E f \in DOMAIN futures :
          futures[f].raised /\ futures[f].arg \in Range(result.unknown)

\* C17: health_check_instances issues only find_server calls, which read,
\* and leaves every server, image, network and other resource of the backend
\* as it was.
C17_HealthReadsOnly ==
    args.op = "health" =>
        /\ backend = backend0
        /\ \A p \in DOMAIN calls :
              calls[p].call = "find_server" /\ calls[p].info = "read"

\* a returned check of two names, one of a server that is not ACTIVE
C17_Witness ==
    /\ args.op = "health" /\ pc = "done"
    /\ Len(calls) = 2
    /\ result.unhealthy # <<>>
    /\ \E srv \in backend.servers : srv.status = "SHUTOFF"

-----------------------------------------------------------------------------
(* The fan-out operations together: launch, snapshot, health check *)

InitFanOut == InitHealth \/ InitSnapshot \/ InitLaunch

NextFanOut ==
    \/ WorkerStart
    \/ HealthSubmit
    \/ HealthWorkerFinish
    \/ HealthCollect
    \/ HealthRerun
    \/ SnapshotSubmit
    \/ SnapshotWorkerFinish
    \/ SnapshotCollect
    \/ SnapshotRaise
    \/ LaunchSubmit
    \/ LaunchWorkerFinish
    \/ LaunchCollect
    \/ LaunchSerial

SpecFanOut == InitFanOut /\ [][NextFanOut]_vars

\* C14: in parallel batch_launch_instances, batch_snapshot_instances and
\* health_check_instances at most max_workers units of work are executing at
\* any time.
C14_BoundedParallelism ==
    args.op \in {"launch", "snapshot", "health"} =>
        Cardinality(Running) <= args.max_workers

\* the pool of one worker is busy while another unit waits in the queue
C14_Witness ==
    /\ args.op \in {"launch", "snapshot", "health"}
    /\ args.max_workers = 1
    /\ Cardinality(Running) = 1
    /\ Queued # {}

-----------------------------------------------------------------------------
(* The serial operations together: serial launch, resize, rolling update *)

InitSerial ==
    \/ InitResize
    \/ InitRolling
    \/ InitLaunch /\ ~args.parallel

NextSerial ==
    \/ LaunchSerial
    \/ ResizeFindFlavor
    \/ ResizeFindServer
    \/ ResizeRequest
    \/ ResizeWait
    \/ ResizeConfirm
    \/ RollingList
    \/ RollingBatch
    \/ RollingSnapshot
    \/ RollingDelete
    \/ RollingWaitForDelete
    \/ RollingLaunch
    \/ RollingEndOfBatch

SpecSerial == InitSerial /\ [][NextSerial]_vars

IsSerial ==
    \/ args.op \in {"resize", "rolling"}
    \/ args.op = "launch" /\ ~args.parallel

\* C15: serial batch_launch_instances, batch_resize_instances and
\* rolling_update handle their units in list order and one at a time: no
\* call for a unit is issued after a call for a later unit, failed units
\* included, and on return every unit has been handled.
C15_SerialOrder ==
    IsSerial =>
        /\ \A p, q \in DOMAIN calls :
              (p < q /\ calls[p].unit >= 1 /\ calls[q].unit >= 1) =>
                  calls[p].unit <= calls[q].unit
        /\ \A p \in DOMAIN calls : calls[p].unit \in {0} \cup Units
        /\ (pc = "done" /\ ~(args.op = "resize" /\ FlavorMissing)) =>
              \A k \in Units : EventsOf(k) # {}

\* a returned serial launch of two specs: the first failed, the second was
\* launched after it
C15_Witness ==
    /\ args.op = "launch" /\ ~args.parallel /\ pc = "done"
    /\ Len(args.instance_configs) = 2
    /\ Issued(1, "launch_instance", FALSE)
    /\ Issued(2, "launch_instance", TRUE)

-----------------------------------------------------------------------------
(* rolling_update while other clients change the servers of the backend *)

\* changes of other clients logged so far
EnvChanges == Cardinality({p \in DOMAIN calls : calls[p].call = "other_client"})

\* other clients act between two windows of the run
EnvEnabled ==
    /\ args.op = "rolling"
    /\ pc = "batch"
    /\ EnvChanges < MaxEnvChanges

\* the server the run reaches last, while the backend holds it
EnvTargets ==
    {srv \in backend.servers :
        /\ locals.servers # <<>>
        /\ srv.id = locals.servers[Len(locals.servers)].id}

\* another client creates a server whose name starts with a
EnvCreateServer ==
    /\ EnvEnabled
    /\ backend' = [backend EXCEPT
                      !.servers = @ \cup {MkServer(backend.next_id, <<"a", "0">>,
                                                   "ACTIVE", {"10.0.0.2"})},
                      !.next_id = @ + 1]
    /\ calls' = Append(calls, Event("other_client", 0, TRUE, "create_server"))
    /\ UNCHANGED <<backend0, args, pc, i, locals, futures, yielded, result,
                   prev_result, runs>>

\* another client deletes a server the run has listed
EnvDeleteServer ==
    /\ EnvEnabled
    /\ \E srv \in EnvTargets :
          backend' = [backend EXCEPT !.servers = @ \ {srv}]
    /\ calls' = Append(calls, Event("other_client", 0, TRUE, "delete_server"))
    /\ UNCHANGED <<backend0, args, pc, i, locals, futures, yielded, result,
                   prev_result, runs>>

\* another client renames a server the run has listed
EnvRenameServer ==
    /\ EnvEnabled
    /\ \E srv \in EnvTargets :
          backend' = [backend EXCEPT
                         !.servers = (@ \ {srv}) \cup {[srv EXCEPT !.name = <<"z">>]}]
    /\ calls' = Append(calls, Event("other_client", 0, TRUE, "update_server"))
    /\ UNCHANGED <<backend0, args, pc, i, locals, futures, yielded, result,
                   prev_result, runs>>

InitRollingEnv ==
    /\ \E n \in 0..MaxEnvServers :
          backend = MkBackend({MkServer(k, RollingName(k), "ACTIVE", {"10.0.0.1"}) :
                                  k \in 1..n}, {"m1.small"})
    /\ backend0 = backend
    /\ \E prefix \in {<<>>, <<"a">>}, size \in {1, 2} :
          args = [op |-> "rolling", server_prefix |-> prefix,
                  new_image |-> "ubuntu", batch_size |-> size, max_workers |-> 1,
                  now |-> "t0"]
    /\ pc = "list"
    /\ i = 0
    /\ locals = [servers |-> <<>>, j |-> 1, server |-> NoServer]
    /\ futures = <<>>
    /\ yielded = {}
    /\ result = <<>>
    /\ prev_result = <<>>
    /\ runs = 1
    /\ calls = <<>>

NextRollingEnv ==
    \/ RollingList
    \/ RollingBatch
    \/ RollingSnapshot
    \/ RollingDelete
    \/ RollingWaitForDelete
    \/ RollingLaunch
    \/ RollingEndOfBatch
    \/ EnvCreateServer
    \/ EnvDeleteServer
    \/ EnvRenameServer

SpecRollingEnv == InitRollingEnv /\ [][NextRollingEnv]_vars

\* the servers that matched the prefix when rolling_update started
Matched0 == MatchingServers(backend0, args.server_prefix)

\* C16: rolling_update matches the prefix once, before the first window: the
\* servers it processes, and their order, are those that matched at the
\* start, whatever servers appear, disappear or are renamed during the run.
C16_RollingMatchesOnce ==
    (args.op = "rolling" /\ pc # "list") =>
        /\ locals.servers = Matched0
        /\ \A p \in DOMAIN calls :
              calls[p].unit >= 1 => calls[p].unit \in DOMAIN Matched0
        /\ \A p \in DOMAIN calls :
              calls[p].call \in {"delete_server", "wait_for_delete"} =>
                  calls[p].info = Matched0[calls[p].unit].id
        /\ \A im \in backend.images \ backend0.images :
              im.server_id \in {srv.id : srv \in Range(Matched0)}
        /\ \A p, q \in DOMAIN calls :
              (p < q /\ calls[p].unit >= 1 /\ calls[q].unit >= 1) =>
                  calls[p].unit <= calls[q].unit
        /\ pc = "done" =>
              \A u \in DOMAIN Matched0 :
                  \E p \in DOMAIN calls : /\ calls[p].unit = u
                                          /\ calls[p].call = "create_server_image"

\* between two windows another client changed which servers match the
\* prefix, and the run went on to the second window
C16_Witness ==
    /\ args.op = "rolling" /\ pc = "done"
    /\ Len(Matched0) >= 2
    /\ MatchingServers(backend, args.server_prefix) # <<>>
    /\ \E p, q, r \in DOMAIN calls :
          /\ p < q /\ q < r
          /\ calls[p].call = "batch"
          /\ calls[q].call = "other_client"
          /\ calls[r].call = "batch"

-----------------------------------------------------------------------------
(* The single-target calls of openstack_automation.py: launch_instance,    *)
(* assign_floating_ip, attach_volume, create_network_infrastructure        *)

\* ids of the external network and of the volume that exist before the call
ExtNetId == 201
DataVolId == 400

\* a backend that also holds volumes, floating IPs, subnets, routers and
\* router interfaces; external tells whether it has an external network
MkCloud(servers, external, volumes) ==
    [servers |-> servers,
     images |-> {[id |-> CirrosId, name |-> "cirros"],
                 [id |-> UbuntuId, name |-> "ubuntu"]},
     flavors |-> {"m1.small"},
     networks |-> {[id |-> AppNetId, name |-> "app-net",
                    is_router_external |-> FALSE]}
                  \cup (IF external
                        THEN {[id |-> ExtNetId, name |-> "public",
                               is_router_external |-> TRUE]}
                        ELSE {}),
     security_groups |-> {"web-sg"},
     volumes |-> volumes,
     floating_ips |-> {},
     subnets |-> {},
     routers |-> {},
     interfaces |-> {},
     attachments |-> {},
     next_id |-> FirstNewId]

NoSingleLocals ==
    [error |-> "none", server |-> NoServer, volume |-> 0, external_net |-> 0,
     floating_ip |-> 0, network |-> 0, subnet |-> 0, router |-> 0]

\* for net in conn.network.networks(): if net.is_router_external: ... break
\* the id of the first external network listed, or 0 for None
external_net(b) ==
    LET ext == {n.id : n \in {m \in b.networks : m.is_router_external}}
    IN  IF ext = {} THEN 0 ELSE CHOOSE x \in ext : \A y \in ext : x <= y

\* conn.volume.find_volume(name): the volume's id, or 0 for None
find_volume(b, name) ==
    IF \E v \in b.volumes : v.name = name
    THEN (CHOOSE v \in b.volumes : v.name = name).id
    ELSE 0

\* the call ends with an exception that reaches the caller
SingleRaise(error, events) ==
    /\ pc' = "raised"
    /\ locals' = [locals EXCEPT !.error = error]
    /\ calls' = calls \o events

\* launch_instance(**config) called directly: returns the server or raises
SingleLaunch ==
    /\ args.op = "launch_instance"
    /\ pc = "call"
    /\ \E outcome \in LaunchOutcomes :
          LET r == launch_instance(backend, args.config, 1, outcome)
          IN  /\ backend' = r.backend
              /\ calls' = calls \o r.events
              /\ IF r.raised
                 THEN /\ pc' = "raised"
                      /\ locals' = [locals EXCEPT !.error = r.error]
                      /\ UNCHANGED result
                 ELSE /\ pc' = "returned"
                      /\ locals' = [locals EXCEPT !.server = r.server]
                      /\ result' = <<r.server>>
    /\ UNCHANGED <<backend0, args, i, futures, yielded, prev_result, runs>>

\* server = conn.compute.find_server(server_name)
\* if not server: raise ValueError
AssignFindServer ==
    /\ args.op = "assign_floating_ip"
    /\ pc = "call"
    /\ LET f == find_server(backend, args.server_name)
       IN  IF f.raised
           THEN SingleRaise("DuplicateResource",
                            <<Event("find_server", 1, FALSE, "DuplicateResource")>>)
           ELSE IF ~f.found
           THEN SingleRaise("ValueError: Server not found",
                            <<Event("find_server", 1, TRUE, "None")>>)
           ELSE /\ pc' = "networks"
                /\ locals' = [locals EXCEPT !.server = f.server]
                /\ calls' = Append(calls, Event("find_server", 1, TRUE, f.server.id))
    /\ UNCHANGED <<backend, backend0, args, i, futures, yielded, result,
                   prev_result, runs>>

\* the search for the external network;
\* if not external_net: raise ValueError("No external network found")
AssignFindExternal ==
    /\ args.op = "assign_floating_ip"
    /\ pc = "networks"
    /\ IF external_net(backend) = 0
       THEN SingleRaise("ValueError: No external network found",
                        <<Event("networks", 1, TRUE, 0)>>)
       ELSE /\ pc' = "create_ip"
            /\ locals' = [locals EXCEPT !.external_net = external_net(backend)]
            /\ calls' = Append(calls, Event("networks", 1, TRUE,
                                            external_net(backend)))
    /\ UNCHANGED <<backend, backend0, args, i, futures, yielded, result,
                   prev_result, runs>>

\* floating_ip = conn.network.create_ip(floating_network_id=external_net.id)
AssignCreateIp ==
    /\ args.op = "assign_floating_ip"
    /\ pc = "create_ip"
    /\ \E ok \in BOOLEAN :
          IF ok
          THEN /\ backend' = [backend EXCEPT
                    !.floating_ips = @ \cup
                        {[id |-> backend.next_id,
                          floating_network_id |-> locals.external_net,
                          fixed_ip_address |-> 0]},
                    !.next_id = @ + 1]
               /\ locals' = [locals EXCEPT !.floating_ip = backend.next_id]
               /\ calls' = Append(calls, Event("create_ip", 1, TRUE, backend.next_id))
               /\ pc' = "add_floating_ip_to_server"
          ELSE /\ SingleRaise("SDKException", <<Event("create_ip", 1, FALSE, 0)>>)
               /\ UNCHANGED backend
    /\ UNCHANGED <<backend0, args, i, futures, yielded, result, prev_result, runs>>

\* conn.compute.add_floating_ip_to_server(server, floating_ip.floating_ip_address)
\* return floating_ip.floating_ip_address
AssignAddIp ==
    /\ args.op = "assign_floating_ip"
    /\ pc = "add_floating_ip_to_server"
    /\ \E ok \in BOOLEAN :
          IF ok
          THEN /\ backend' = [backend EXCEPT
                    !.floating_ips =
                        {IF f.id = locals.floating_ip
                         THEN [f EXCEPT !.fixed_ip_address = locals.server.id]
                         ELSE f : f \in @},
                    !.servers =
                        {IF srv.id = locals.server.id
                         THEN [srv EXCEPT !.addresses = @ \cup {"172.24.4.9"}]
                         ELSE srv : srv \in @}]
               /\ calls' = Append(calls, Event("add_floating_ip_to_server", 1, TRUE,
                                               locals.floating_ip))
               /\ result' = <<locals.floating_ip>>
               /\ pc' = "returned"
               /\ UNCHANGED locals
          ELSE /\ SingleRaise("SDKException",
                              <<Event("add_floating_ip_to_server", 1, FALSE, 0)>>)
               /\ UNCHANGED <<backend, result>>
    /\ UNCHANGED <<backend0, args, i, futures, yielded, prev_result, runs>>

\* server = conn.compute.find_server(server_name)
\* volume = conn.volume.find_volume(volume_name)
\* if not server or not volume: raise ValueError
AttachFind ==
    /\ args.op = "attach_volume"
    /\ pc = "call"
    /\ LET f == find_server(backend, args.server_name)
           v == find_volume(backend, args.volume_name)
           found == <<Event("find_server", 1, TRUE,
                            IF f.found THEN "read" ELSE "None"),
                      Event("find_volume", 1, TRUE,
                            IF v # 0 THEN "read" ELSE "None")>>
       IN  IF f.raised
           THEN SingleRaise("DuplicateResource",
                            <<Event("find_server", 1, FALSE, "DuplicateResource")>>)
           ELSE IF ~f.found \/ v = 0
           THEN SingleRaise("ValueError: Server or volume not found", found)
           ELSE /\ pc' = "create_volume_attachment"
                /\ locals' = [locals EXCEPT !.server = f.server, !.volume = v]
                /\ calls' = calls \o found
    /\ UNCHANGED <<backend, backend0, args, i, futures, yielded, result,
                   prev_result, runs>>

\* conn.compute.create_volume_attachment(server, volume_id=volume.id)
AttachCreate ==
    /\ args.op = "attach_volume"
    /\ pc = "create_volume_attachment"
    /\ \E ok \in BOOLEAN :
          IF ok
          THEN /\ backend' = [backend EXCEPT
                    !.attachments = @ \cup {[server_id |-> locals.server.id,
                                             volume_id |-> locals.volume]}]
               /\ calls' = Append(calls, Event("create_volume_attachment", 1, TRUE,
                                               locals.volume))
               /\ pc' = "returned"
               /\ UNCHANGED locals
          ELSE /\ SingleRaise("SDKException",
                              <<Event("create_volume_attachment", 1, FALSE, 0)>>)
               /\ UNCHANGED backend
    /\ UNCHANGED <<backend0, args, i, futures, yielded, result, prev_result, runs>>

\* network = conn.network.create_network(name=network_name, admin_state_up=True)
InfraCreateNetwork ==
    /\ args.op = "create_network_infrastructure"
    /\ pc = "call"
    /\ \E ok \in BOOLEAN :
          IF ok
          THEN /\ backend' = [backend EXCEPT
                    !.networks = @ \cup {[id |-> backend.next_id,
                                          name |-> args.network_name,
                                          is_router_external |-> FALSE]},
                    !.next_id = @ + 1]
               /\ locals' = [locals EXCEPT !.network = backend.next_id]
               /\ calls' = Append(calls, Event("create_network", 1, TRUE,
                                               backend.next_id))
               /\ pc' = "create_subnet"
          ELSE /\ SingleRaise("SDKException", <<Event("create_network", 1, FALSE, 0)>>)
               /\ UNCHANGED backend
    /\ UNCHANGED <<backend0, args, i, futures, yielded, result, prev_result, runs>>

\* subnet = conn.network.create_subnet(name=..., network_id=network.id, ...)
InfraCreateSubnet ==
    /\ args.op = "create_network_infrastructure"
    /\ pc = "create_subnet"
    /\ \E ok \in BOOLEAN :
          IF ok
          THEN /\ backend' = [backend EXCEPT
                    !.subnets = @ \cup {[id |-> backend.next_id,
                                         network_id |-> locals.network]},
                    !.next_id = @ + 1]
               /\ locals' = [locals EXCEPT !.subnet = backend.next_id]
               /\ calls' = Append(calls, Event("create_subnet", 1, TRUE,
                                               backend.next_id))
               /\ pc' = "networks"
          ELSE /\ SingleRaise("SDKException", <<Event("create_subnet", 1, FALSE, 0)>>)
               /\ UNCHANGED backend
    /\ UNCHANGED <<backend0, args, i, futures, yielded, result, prev_result, runs>>

\* what create_network_infrastructure returns
InfraResult == [network |-> locals.network, subnet |-> locals.subnet,
                router |-> locals.router]

\* InfraFindExternal raising when there is no external network
InfraFindExternal_Raises ==
    /\ args.op = "create_network_infrastructure"
    /\ pc = "networks"
    /\ IF external_net(backend) = 0
       THEN SingleRaise("ValueError: No external network found",
                        <<Event("networks", 1, TRUE, 0)>>)
       ELSE /\ pc' = "create_router"
            /\ locals' = [locals EXCEPT !.external_net = external_net(backend)]
            /\ calls' = Append(calls, Event("networks", 1, TRUE,
                                            external_net(backend)))
    /\ UNCHANGED <<backend, backend0, args, i, futures, yielded, result,
                   prev_result, runs>>

\* the search for the external network; without one: router = None, a
\* warning, and the return of network, subnet and router
InfraFindExternal ==
    /\ args.op = "create_network_infrastructure"
    /\ pc = "networks"
    /\ IF external_net(backend) = 0
       THEN /\ pc' = "returned"
            /\ result' = <<[InfraResult EXCEPT !.router = 0]>>
            /\ calls' = calls \o <<Event("networks", 1, TRUE, 0),
                                   Event("warning", 1, TRUE, "No external network")>>
            /\ UNCHANGED locals
       ELSE /\ pc' = "create_router"
            /\ locals' = [locals EXCEPT !.external_net = external_net(backend)]
            /\ calls' = Append(calls, Event("networks", 1, TRUE,
                                            external_net(backend)))
            /\ UNCHANGED result
    /\ UNCHANGED <<backend, backend0, args, i, futures, yielded, prev_result, runs>>

\* router = conn.network.create_router(name=...,
\*     external_gateway_info={'network_id': external_net.id})
InfraCreateRouter ==
    /\ args.op = "create_network_infrastructure"
    /\ pc = "create_router"
    /\ \E ok \in BOOLEAN :
          IF ok
          THEN /\ backend' = [backend EXCEPT
                    !.routers = @ \cup {[id |-> backend.next_id,
                                         gateway |-> locals.external_net]},
                    !.next_id = @ + 1]
               /\ locals' = [locals EXCEPT !.router = backend.next_id]
               /\ calls' = Append(calls, Event("create_router", 1, TRUE,
                                               backend.next_id))
               /\ pc' = "add_interface_to_router"
          ELSE /\ SingleRaise("SDKException", <<Event("create_router", 1, FALSE, 0)>>)
               /\ UNCHANGED backend
    /\ UNCHANGED <<backend0, args, i, futures, yielded, result, prev_result, runs>>

\* conn.network.add_interface_to_router(router.id, subnet_id=subnet.id)
\* return {'network': network, 'subnet': subnet, 'router': router}
InfraAddInterface ==
    /\ args.op = "create_network_infrastructure"
    /\ pc = "add_interface_to_router"
    /\ \E ok \in BOOLEAN :
          IF ok
          THEN /\ backend' = [backend EXCEPT
                    !.interfaces = @ \cup {[router_id |-> locals.router,
                                            subnet_id |-> locals.subnet]}]
               /\ calls' = Append(calls, Event("add_interface_to_router", 1, TRUE,
                                               locals.router))
               /\ result' = <<InfraResult>>
               /\ pc' = "returned"
               /\ UNCHANGED locals
          ELSE /\ SingleRaise("SDKException",
                              <<Event("add_interface_to_router", 1, FALSE, 0)>>)
               /\ UNCHANGED <<backend, result>>
    /\ UNCHANGED <<backend0, args, i, futures, yielded, prev_result, runs>>

\* the instance configs a caller may pass to launch_instance
SingleConfigs ==
    {[name |-> <<"a">>, image_name |-> "cirros", flavor_name |-> "m1.small",
      network_name |-> "app-net", security_group_name |-> "web-sg"],
     [name |-> <<"a">>, image_name |-> "no-image", flavor_name |-> "m1.small",
      security_group_name |-> "web-sg"],
     [name |-> <<"a">>, image_name |-> "ubuntu", flavor_name |-> "no-flavor"],
     [name |-> <<"a">>, image_name |-> "ubuntu", flavor_name |-> "m1.small",
      network_name |-> "no-net"],
     [name |-> <<"a">>, image_name |-> "cirros", flavor_name |-> "m1.small",
      network_name |-> "app-net", security_group_name |-> "no-sg"]}

SingleCalls ==
    {[op |-> "launch_instance", config |-> c] : c \in SingleConfigs}
    \cup {[op |-> "assign_floating_ip", server_name |-> n] : n \in Names}
    \cup {[op |-> "attach_volume", server_name |-> n, volume_name |-> v] :
             n \in Names, v \in {"data", "no-volume"}}
    \cup {[op |-> "create_network_infrastructure", network_name |-> "auto-network"]}

InitSingle ==
    /\ \E kind \in Kinds, external \in BOOLEAN,
          volumes \in SUBSET {[id |-> DataVolId, name |-> "data"]} :
          backend = MkCloud(ServersOfKind(1, <<"a">>, kind), external, volumes)
    /\ backend0 = backend
    /\ args \in SingleCalls
    /\ pc = "call"
    /\ i = 0
    /\ locals = NoSingleLocals
    /\ futures = <<>>
    /\ yielded = {}
    /\ result = <<>>
    /\ prev_result = <<>>
    /\ runs = 1
    /\ calls = <<>>

NextSingle ==
    \/ SingleLaunch
    \/ AssignFindServer
    \/ AssignFindExternal
    \/ AssignCreateIp
    \/ AssignAddIp
    \/ AttachFind
    \/ AttachCreate
    \/ InfraCreateNetwork
    \/ InfraCreateSubnet
    \/ InfraFindExternal
    \/ InfraCreateRouter
    \/ InfraAddInterface

SpecSingle == InitSingle /\ [][NextSingle]_vars

\* the calls that create or attach something in the backend
CreateCalls == {"create_server", "create_ip", "add_floating_ip_to_server",
                "create_volume_attachment", "create_router",
                "add_interface_to_router"}

\* a resource the single-target call names does not resolve in the backend
Unresolved ==
    CASE args.op = "launch_instance" ->
            \/ find_image(backend0, Arg(args.config, "image_name",
                                        "cirros-0.5.2-x86_64-disk")) = 0
            \/ ~find_flavor(backend0, Arg(args.config, "flavor_name", "m1.small"))
            \/ /\ Arg(args.config, "security_group_name", "None") # "None"
               /\ args.config.security_group_name \notin backend0.security_groups
      [] args.op = "assign_floating_ip" ->
            ~find_server(backend0, args.server_name).found
      [] args.op = "attach_volume" ->
            \/ ~find_server(backend0, args.server_name).found
            \/ find_volume(backend0, args.volume_name) = 0
      [] OTHER -> FALSE

\* C18: a single-target call (launch_instance, assign_floating_ip,
\* attach_volume) that names an image, flavor, security group, server or
\* volume the backend cannot resolve raises to its caller, and no create or
\* attach call reaches the backend.
C18_NotFoundRaises ==
    (args.op \in {"launch_instance", "assign_floating_ip", "attach_volume"}
        /\ Unresolved) =>
        /\ pc # "returned"
        /\ \A p \in DOMAIN calls : calls[p].call \notin CreateCalls
        /\ backend = backend0

NoExternal == external_net(backend0) = 0

\* C19: without an external network, assign_floating_ip raises an explicit
\* error and neither creates nor assigns a floating IP, while
\* create_network_infrastructure raises nothing of its own, creates no router
\* and no router interface, and returns the network and the subnet it
\* created with router = None.
C19_NoExternalNetwork ==
    /\ (args.op = "assign_floating_ip" /\ NoExternal) =>
          /\ pc \notin {"returned", "create_ip", "add_floating_ip_to_server"}
          /\ backend = backend0
          /\ \A p \in DOMAIN calls : calls[p].call \notin CreateCalls
          /\ (pc = "raised" /\ find_server(backend0, args.server_name).found) =>
                locals.error = "ValueError: No external network found"
    /\ (args.op = "create_network_infrastructure" /\ NoExternal) =>
          /\ pc \notin {"create_router", "add_interface_to_router"}
          /\ backend.routers = backend0.routers
          /\ backend.interfaces = backend0.interfaces
          /\ \A p \in DOMAIN calls : calls[p].call \notin CreateCalls
          /\ pc = "raised" =>
                /\ calls[Len(calls)].call \in {"create_network", "create_subnet"}
                /\ ~calls[Len(calls)].ok
          /\ pc = "returned" =>
                /\ Len(result) = 1
                /\ result[1].router = 0
                /\ \E n \in backend.networks \ backend0.networks :
                      /\ n.id = result[1].network
                      /\ n.name = args.network_name
                /\ \E sn \in backend.subnets \ backend0.subnets :
                      /\ sn.id = result[1].subnet
                      /\ sn.network_id = result[1].network

\* create_network_infrastructure has returned from a backend without an
\* external network
C19_Witness ==
    /\ args.op = "create_network_infrastructure"
    /\ NoExternal
    /\ pc = "returned"
    /\ result[1].router = 0
    /\ \E p \in DOMAIN calls : calls[p].call = "warning"

-----------------------------------------------------------------------------
(* cleanup_resources *)

\* CleanupKinds with the loop over the networks ahead of the loop over the
\* routers
CleanupKinds_NetworksFirst ==
    <<"servers", "volumes", "floating_ips", "networks", "routers",
      "security_groups">>

\* the order of the loops of cleanup_resources
CleanupKinds ==
    <<"servers", "volumes", "floating_ips", "routers", "networks",
      "security_groups">>

\* a resource of each kind whose name starts with a
Prefixed ==
    [servers |-> {MkServer(1, <<"a", "1">>, "ACTIVE", {"10.0.0.1"})},
     volumes |-> {[id |-> 11, name |-> <<"a", "v">>]},
     routers |-> {[id |-> 31, name |-> <<"a", "r">>]},
     ports |-> {[id |-> 41, device_id |-> 31,
                 device_owner |-> "network:router_interface"],
                [id |-> 42, device_id |-> 31,
                 device_owner |-> "network:router_gateway"]},
     networks |-> {[id |-> 51, name |-> <<"a", "n">>]},
     security_groups |-> {[id |-> 61, name |-> <<"a", "g">>]}]

\* a resource of each kind whose name does not start with a; the volume has
\* no name (None)
Others ==
    [servers |-> {MkServer(2, <<"b">>, "ACTIVE", {"10.0.0.2"})},
     volumes |-> {[id |-> 12, name |-> <<>>]},
     routers |-> {[id |-> 32, name |-> <<"b", "r">>]},
     ports |-> {[id |-> 43, device_id |-> 32,
                 device_owner |-> "network:router_interface"]},
     networks |-> {[id |-> 52, name |-> <<"b", "n">>]},
     security_groups |-> {[id |-> 62, name |-> <<"d">>]}]

\* floating IPs, named by their address: one unassigned, one assigned to a
\* fixed address
FloatingIps ==
    {[id |-> 21, name |-> <<"1">>, fixed_ip_address |-> 0],
     [id |-> 22, name |-> <<"2">>, fixed_ip_address |-> 2]}

NoCleanupLocals == [todo |-> <<>>, router |-> 0, ports |-> <<>>, error |-> "none"]

\* server.name.startswith(prefix)
ServerSelected(r) == startswith(r.name, args.prefix)

\* x.name and x.name.startswith(prefix)
NamedSelected(r) == r.name # <<>> /\ startswith(r.name, args.prefix)

\* not fip.fixed_ip_address
FipSelected(r) == r.fixed_ip_address = 0

\* the backend after the delete call of the kind was accepted for r
Deleted(b, kind, r) ==
    IF kind = "servers" THEN SetStatus(b, r.id, "DELETING")
    ELSE [b EXCEPT ![kind] = @ \ {r}]

\* the loop that starts when the loop over kind ends
AfterLoop(kind) ==
    LET k == CHOOSE n \in DOMAIN CleanupKinds : CleanupKinds[n] = kind
    IN  IF k = Len(CleanupKinds) THEN "returned" ELSE CleanupKinds[k + 1]

\* one step of  for x in conn.<service>.<kind>(): if <test>: delete(x)
\* where selected holds the listed resources that pass the test;
\* the listing is taken when the loop starts; a delete that throws ends the
\* call, nothing catches it
CleanupLoop(kind, call, selected) ==
    /\ args.op = "cleanup_resources"
    /\ pc = kind
    /\ IF locals.todo = <<>>
       THEN /\ pc' = AfterLoop(kind)
            /\ locals' = [locals EXCEPT
                  !.todo = IF AfterLoop(kind) = "returned" THEN <<>>
                           ELSE ById(backend[AfterLoop(kind)])]
            /\ UNCHANGED <<backend, calls>>
       ELSE LET r == Head(locals.todo)
            IN  IF r \notin selected
                THEN /\ locals' = [locals EXCEPT !.todo = Tail(@)]
                     /\ UNCHANGED <<backend, calls, pc>>
                ELSE \E ok \in BOOLEAN :
                     IF ok
                     THEN /\ backend' = Deleted(backend, kind, r)
                          /\ calls' = Append(calls, Event(call, r.id, TRUE, kind))
                          /\ locals' = [locals EXCEPT !.todo = Tail(@)]
                          /\ UNCHANGED pc
                     ELSE /\ SingleRaise("SDKException",
                                         <<Event(call, r.id, FALSE, kind)>>)
                          /\ UNCHANGED backend
    /\ UNCHANGED <<backend0, args, i, futures, yielded, result, prev_result, runs>>

\* for server in conn.compute.servers(): ... delete_server(server)
CleanupServers ==
    /\ pc = "servers"
    /\ CleanupLoop("servers", "delete_server",
                   {r \in Range(locals.todo) : ServerSelected(r)})

\* for volume in conn.volume.volumes(): ... delete_volume(volume)
CleanupVolumes ==
    /\ pc = "volumes"
    /\ CleanupLoop("volumes", "delete_volume",
                   {r \in Range(locals.todo) : NamedSelected(r)})

\* for fip in conn.network.ips(): if not fip.fixed_ip_address: delete_ip(fip)
CleanupIps ==
    /\ pc = "floating_ips"
    /\ CleanupLoop("floating_ips", "delete_ip",
                   {r \in Range(locals.todo) : FipSelected(r)})

\* for network in conn.network.networks(): ... delete_network(network)
CleanupNetworks ==
    /\ pc = "networks"
    /\ CleanupLoop("networks", "delete_network",
                   {r \in Range(locals.todo) : NamedSelected(r)})

\* for sg in conn.network.security_groups(): ... delete_security_group(sg)
CleanupSecurityGroups ==
    /\ pc = "security_groups"
    /\ CleanupLoop("security_groups", "delete_security_group",
                   {r \in Range(locals.todo) : NamedSelected(r)})

\* for router in conn.network.routers():
\*     if router.name and router.name.startswith(prefix):
\*         for port in conn.network.ports(device_id=router.id): ...
CleanupRouters ==
    /\ args.op = "cleanup_resources"
    /\ pc = "routers"
    /\ IF locals.todo = <<>>
       THEN /\ pc' = AfterLoop("routers")
            /\ locals' = [locals EXCEPT !.todo = ById(backend[AfterLoop("routers")])]
       ELSE LET r == Head(locals.todo)
            IN  IF ~NamedSelected(r)
                THEN /\ locals' = [locals EXCEPT !.todo = Tail(@)]
                     /\ UNCHANGED pc
                ELSE /\ locals' = [locals EXCEPT
                           !.todo = Tail(@),
                           !.router = r.id,
                           !.ports = ById({p \in backend.ports :
                                              p.device_id = r.id})]
                     /\ pc' = "ports"
    /\ UNCHANGED <<backend, backend0, args, i, futures, yielded, result,
                   prev_result, runs, calls>>

\* if port.device_owner == 'network:router_interface':
\*     conn.network.remove_interface_from_router(router, port_id=port.id)
CleanupPorts ==
    /\ args.op = "cleanup_resources"
    /\ pc = "ports"
    /\ IF locals.ports = <<>>
       THEN /\ pc' = "delete_router"
            /\ UNCHANGED <<backend, locals, calls>>
       ELSE LET port == Head(locals.ports)
            IN  IF port.device_owner # "network:router_interface"
                THEN /\ locals' = [locals EXCEPT !.ports = Tail(@)]
                     /\ UNCHANGED <<backend, calls, pc>>
                ELSE \E ok \in BOOLEAN :
                     IF ok
                     THEN /\ backend' = [backend EXCEPT !.ports = @ \ {port}]
                          /\ calls' = Append(calls,
                                Event("remove_interface_from_router",
                                      locals.router, TRUE, port.id))
                          /\ locals' = [locals EXCEPT !.ports = Tail(@)]
                          /\ UNCHANGED pc
                     ELSE /\ SingleRaise("SDKException",
                                <<Event("remove_interface_from_router",
                                        locals.router, FALSE, port.id)>>)
                          /\ UNCHANGED backend
    /\ UNCHANGED <<backend0, args, i, futures, yielded, result, prev_result, runs>>

\* conn.network.delete_router(router), after the loop over its ports
CleanupDeleteRouter ==
    /\ args.op = "cleanup_resources"
    /\ pc = "delete_router"
    /\ \E ok \in BOOLEAN :
          IF ok
          THEN /\ backend' = [backend EXCEPT
                    !.routers = {r \in @ : r.id # locals.router},
                    !.ports = {p \in @ : p.device_id # locals.router}]
               /\ calls' = Append(calls, Event("delete_router", locals.router,
                                               TRUE, "routers"))
               /\ pc' = "routers"
               /\ UNCHANGED locals
          ELSE /\ SingleRaise("SDKException",
                     <<Event("delete_router", locals.router, FALSE, "routers")>>)
               /\ UNCHANGED backend
    /\ UNCHANGED <<backend0, args, i, futures, yielded, result, prev_result, runs>>

InitCleanup ==
    /\ \E withPrefixed \in BOOLEAN, others \in SUBSET (DOMAIN Others \ {"ports"}),
          fips \in SUBSET FloatingIps :
          LET Of(kind) == (IF withPrefixed THEN Prefixed[kind] ELSE {})
                          \cup (IF kind \in others THEN Others[kind] ELSE {})
          IN  backend = [servers |-> Of("servers"),
                         volumes |-> Of("volumes"),
                         floating_ips |-> fips,
                         routers |-> Of("routers"),
                         ports |-> (IF withPrefixed THEN Prefixed.ports ELSE {})
                                   \cup (IF "routers" \in others
                                         THEN Others.ports ELSE {}),
                         networks |-> Of("networks"),
                         security_groups |-> Of("security_groups")]
    /\ backend0 = backend
    /\ \E prefix \in {<<>>, <<"a">>} :
          args = [op |-> "cleanup_resources", prefix |-> prefix]
    /\ pc = "servers"
    /\ i = 0
    /\ locals = [NoCleanupLocals EXCEPT !.todo = ById(backend.servers)]
    /\ futures = <<>>
    /\ yielded = {}
    /\ result = <<>>
    /\ prev_result = <<>>
    /\ runs = 1
    /\ calls = <<>>

NextCleanup ==
    \/ CleanupServers
    \/ CleanupVolumes
    \/ CleanupIps
    \/ CleanupRouters
    \/ CleanupPorts
    \/ CleanupDeleteRouter
    \/ CleanupNetworks
    \/ CleanupSecurityGroups

SpecCleanup == InitCleanup /\ [][NextCleanup]_vars

\* the resource's name has the prefix given to cleanup_resources
Carries(r) == r.name # <<>> /\ startswith(r.name, args.prefix)

\* C20: cleanup_resources(prefix) leaves every server, volume, floating IP,
\* router, network and security group whose name does not have the prefix as
\* it was when the call started.
C20_CleanupOnlyPrefixed ==
    args.op = "cleanup_resources" =>
        \A k \in DOMAIN CleanupKinds :
            \A r \in backend0[CleanupKinds[k]] :
                ~Carries(r) => r \in backend[CleanupKinds[k]]

-----------------------------------------------------------------------------
(* Properties of the return of the fan-out operations *)

\* the call runs its units on the worker pool
IsFanOut ==
    \/ args.op \in {"snapshot", "health"}
    \/ args.op = "launch" /\ args.parallel

\* the number of units the submit loop hands to the pool
SubmittedUnits ==
    CASE args.op = "health" -> Len(args.server_names)
      [] args.op = "launch" -> Len(args.instance_configs)
      [] args.op = "snapshot" ->
            Cardinality({k \in DOMAIN args.server_names :
                            find_server(backend0, args.server_names[k]).found})

\* the worker of future f ran its function to the end
RanToEnd(f) ==
    \E p \in DOMAIN calls :
        /\ calls[p].call = futures[f].fn \/ /\ futures[f].fn = "_check_instance_health"
                                            /\ calls[p].call = "find_server"
        /\ calls[p].unit = IF args.op = "snapshot" THEN futures[f].arg.unit ELSE f

\* at the return every submitted unit is done and collected
Finalized ==
    (IsFanOut /\ pc = "done") =>
        /\ Len(futures) = SubmittedUnits
        /\ Queued = {}
        /\ Running = {}
        /\ yielded = DOMAIN futures
        /\ \A f \in DOMAIN futures : RanToEnd(f)

\* C21: when a parallel batch_launch_instances, batch_snapshot_instances or
\* health_check_instances has returned, every unit it submitted has run to
\* its end, failed or not, none is queued or running, and from then on
\* neither the returned result nor the backend changes until the next call.
C21_SynchronousFinalization ==
    /\ []Finalized
    /\ [][(IsFanOut /\ pc = "done" /\ runs' = runs) =>
             (result' = result /\ backend' = backend /\ futures' = futures)]_vars

\* the call returned after a unit failed and a unit submitted after it
\* succeeded
C21_Witness ==
    /\ IsFanOut
    /\ pc = "done"
    /\ \E f, g \in DOMAIN futures :
          /\ f < g
          /\ futures[f].raised
          /\ ~futures[g].raised
          /\ futures[g].state = "done"

\* the number of entries of the result container(s)
Entries(r) ==
    IF args.op = "health"
    THEN Len(r.healthy) + Len(r.unhealthy) + Len(r.unknown)
    ELSE Len(r)

\* r2 is r1 with one entry appended for the future f
AppendedFor(r1, r2, f) ==
    IF args.op = "health"
    THEN \E b \in HealthBuckets :
            r2 = [r1 EXCEPT ![b] = Append(@, futures[f].arg)]
    ELSE /\ Len(r2) = Len(r1) + 1
         /\ SubSeq(r2, 1, Len(r1)) = r1

\* the futures whose collection appends to the result
Appending ==
    IF args.op = "health" THEN yielded
    ELSE {f \in yielded : ~futures[f].raised}

\* C22: in every interleaving of the worker threads of a fan-out operation,
\* the result containers are written one append at a time, by the step that
\* collects one completed future and for that future only, never by a step
\* of a worker, and no append is lost: the containers hold one entry for
\* each future collected so far that has one to contribute.
C22_NoRaceOnResults ==
    /\ [](IsFanOut => Entries(result) = Cardinality(Appending))
    /\ [][(IsFanOut /\ runs' = runs /\ result' # result) =>
             /\ pc = "collect"
             /\ futures' = futures
             /\ \E f \in Done \ yielded :
                   /\ yielded' = yielded \cup {f}
                   /\ AppendedFor(result, result', f)]_vars

\* an entry has been appended while a worker thread is still running
C22_Witness ==
    /\ IsFanOut
    /\ pc = "collect"
    /\ Entries(result) >= 1
    /\ Running # {}

-----------------------------------------------------------------------------
(* Disruption caused by rolling_update *)

\* the matched servers whose deletion the backend accepted and that no
\* active new server of the same name has replaced
Disrupted ==
    {u \in DOMAIN locals.servers :
        /\ \E p \in DOMAIN calls : /\ calls[p].call = "delete_server"
                                   /\ calls[p].unit = u
                                   /\ calls[p].ok
        /\ ~\E srv \in backend.servers :
               /\ srv.name = locals.servers[u].name
               /\ srv.id \notin ServerIds(backend0)
               /\ srv.status = "ACTIVE"}

\* C23: at every point of a rolling_update, runs with failing steps
\* included, at most batch_size matched servers are deleted and not
\* replaced by a new instance.
C23_BoundedDisruption ==
    (args.op = "rolling" /\ pc # "list") =>
        Cardinality(Disrupted) <= args.batch_size

-----------------------------------------------------------------------------
(* Termination of batch_resize_instances and rolling_update.  Here the     *)
(* wait of the resize is the polling loop of wait_for_server: the backend  *)
(* moves the server out of RESIZE when it pleases, or never, and the loop  *)
(* gives up after MaxPolls polls, which stand for wait=300.                *)

\* the status the backend holds for the server the resize waits for
WaitedStatus ==
    LET m == {srv \in backend.servers : srv.id = locals.server.id}
    IN  IF m = {} THEN "NONE" ELSE (CHOOSE srv \in m : TRUE).status

\* polls of the current wait that found the server still resizing
Polls ==
    Cardinality({p \in DOMAIN calls : /\ calls[p].call = "get_server"
                                      /\ calls[p].unit = i})

\* the backend ends the resize: the server awaits confirmation, or failed
BackendEndsResize ==
    /\ args.op = "resize"
    /\ pc = "wait_for_server"
    /\ WaitedStatus = "RESIZE"
    /\ \E status \in {"VERIFY_RESIZE", "ERROR"} :
          backend' = WithServer(backend,
                        IF status = "ERROR"
                        THEN [locals.server EXCEPT !.status = "ERROR"]
                        ELSE [locals.server EXCEPT !.status = "VERIFY_RESIZE",
                                                   !.flavor = args.new_flavor])
    /\ UNCHANGED <<backend0, args, pc, i, locals, futures, yielded, result,
                   prev_result, runs, calls>>

\* one round of the loop of wait_for_server that finds the server still
\* resizing and the time not yet up
ResizePoll ==
    /\ args.op = "resize"
    /\ pc = "wait_for_server"
    /\ WaitedStatus = "RESIZE"
    /\ Polls < MaxPolls
    /\ calls' = Append(calls, Event("get_server", i, TRUE, "RESIZE"))
    /\ UNCHANGED <<backend, backend0, args, pc, i, locals, futures, yielded,
                   result, prev_result, runs>>

\* how the wait ends, given what the backend holds: the status reached, the
\* server in ERROR, or the time up
PolledOutcome ==
    IF WaitedStatus \in {"VERIFY_RESIZE", "ERROR"} THEN WaitedStatus
    ELSE "timeout"

\* ResizeWaitPolled of a wait without timeout (wait=None)
ResizeWaitPolled_NoTimeout ==
    /\ PolledOutcome # "timeout"
    /\ ResizeWait
    /\ calls'[Len(calls) + 1].info = PolledOutcome

\* wait_for_server(server, status='VERIFY_RESIZE', wait=300) ends
ResizeWaitPolled ==
    /\ PolledOutcome = "timeout" => Polls = MaxPolls
    /\ ResizeWait
    /\ calls'[Len(calls) + 1].info = PolledOutcome

InitTermination == InitResize \/ InitRollingEnv

\* the steps of the thread that runs the operation
ThreadStep ==
    \/ ResizeFindFlavor
    \/ ResizeFindServer
    \/ ResizeRequest
    \/ ResizePoll
    \/ ResizeWaitPolled
    \/ ResizeConfirm
    \/ RollingList
    \/ RollingBatch
    \/ RollingSnapshot
    \/ RollingDelete
    \/ RollingWaitForDelete
    \/ RollingLaunch
    \/ RollingEndOfBatch

NextTermination ==
    \/ ThreadStep
    \/ BackendEndsResize

\* the thread goes on while it can; nothing is asked of the backend
SpecTermination ==
    InitTermination /\ [][NextTermination]_vars /\ WF_vars(ThreadStep)

Terminated == pc \in {"done", "raised"}

\* C24: batch_resize_instances and rolling_update terminate for every input
\* when every backend call returns or throws; the wait of the resize ends
\* when its time is up, for a server that never leaves RESIZE too, and that
\* server is then in the failed bucket.
C24_Termination ==
    /\ <>Terminated
    /\ \A k \in 1..MaxNames :
          (args.op = "resize" /\ pc = "wait_for_server" /\ i = k)
              ~> (args.op = "resize" /\ (i > k \/ Terminated))
    /\ [](args.op = "resize" =>
            \A p \in DOMAIN calls :
                (calls[p].call = "wait_for_server" /\ ~calls[p].ok) =>
                    \E q \in DOMAIN result.failed :
                        result.failed[q] = args.server_names[calls[p].unit])

\* the resize returned after the wait for its first server ran out of time
\* with the server still resizing, and went on to resize the second
C24_Witness ==
    /\ args.op = "resize"
    /\ pc = "done"
    /\ \E p \in DOMAIN calls : /\ calls[p].call = "wait_for_server"
                               /\ calls[p].unit = 1
                               /\ calls[p].info = "timeout"
    /\ Cardinality({p \in DOMAIN calls : /\ calls[p].call = "get_server"
                                         /\ calls[p].unit = 1}) = MaxPolls
    /\ \E srv \in backend.servers : srv.status = "RESIZE"
    /\ result.success # <<>>

-----------------------------------------------------------------------------
(* Order of the deletions of cleanup_resources *)

\* the calls that delete something other than a server
LaterDeletes == {"delete_volume", "delete_ip", "remove_interface_from_router",
                 "delete_router", "delete_network", "delete_security_group"}

\* the routers the call is to delete
PrefixedRouters == {r \in backend0.routers : NamedSelected(r)}

\* the router-interface ports of a router when the call started
InterfacePorts(router_id) ==
    {port \in backend0.ports : /\ port.device_id = router_id
                               /\ port.device_owner = "network:router_interface"}

\* C25: cleanup_resources asks for the deletion of every server before it
\* deletes any volume, floating IP, router, network or security group; it
\* removes every router-interface port of a router before it deletes that
\* router; and it has deleted every router that has the prefix before it
\* deletes any network.
C25_CleanupOrder ==
    args.op = "cleanup_resources" =>
        /\ \A p, q \in DOMAIN calls :
              (calls[p].call = "delete_server" /\ calls[q].call \in LaterDeletes)
                  => p < q
        /\ \A q \in DOMAIN calls :
              calls[q].call \in LaterDeletes =>
                  \A srv \in backend0.servers :
                      ServerSelected(srv) =>
                          \E p \in 1..(q - 1) : /\ calls[p].call = "delete_server"
                                                /\ calls[p].unit = srv.id
                                                /\ calls[p].ok
        /\ \A q \in DOMAIN calls :
              calls[q].call = "delete_router" =>
                  \A port \in InterfacePorts(calls[q].unit) :
                      \E p \in 1..(q - 1) :
                          /\ calls[p].call = "remove_interface_from_router"
                          /\ calls[p].unit = calls[q].unit
                          /\ calls[p].info = port.id
                          /\ calls[p].ok
        /\ \A q \in DOMAIN calls :
              calls[q].call = "delete_network" =>
                  \A r \in PrefixedRouters :
                      \E p \in 1..(q - 1) : /\ calls[p].call = "delete_router"
                                            /\ calls[p].unit = r.id
                                            /\ calls[p].ok

\* the call returned after it deleted a server, a router with its interface
\* port removed first, and a network
C25_Witness ==
    /\ args.op = "cleanup_resources"
    /\ pc = "returned"
    /\ \E p, q, r, t \in DOMAIN calls :
          /\ p < q /\ q < r /\ r < t
          /\ calls[p].call = "delete_server"
          /\ calls[q].call = "remove_interface_from_router"
          /\ calls[r].call = "delete_router"
          /\ calls[t].call = "delete_network"

====
